---- MODULE Spec2Model ----
(***************************************************************************)
(* State-machine model of the GitHub analyzer: the bounded TTL cache and   *)
(* the rate limiter of src/lib/cache.ts, and the POST /analyze handler     *)
(* that shares them between concurrent requests.                           *)
(*                                                                         *)
(* Three specifications:                                                   *)
(*   SpecCache    LRUCache alone: get / set / has / clear at given times   *)
(*   SpecLimiter  RateLimiter alone: check / cleanup / reset               *)
(*   Spec         the request handler, several requests in flight          *)
(***************************************************************************)
EXTENDS Integers, Sequences, FiniteSets, TLC

VARIABLES
    now,        \* Date.now(), in model time units
    cache,      \* LRUCache.cache: the Map in insertion order, as a sequence
    limits,     \* RateLimiter.limits: identifier -> [count, resetAt]
    lastOp,     \* the operation just performed on the cache or limiter, with its result
    gLive,      \* history: key -> the value and time of the last set still standing
    gOrder,     \* history: keys by last use (fresh insert or hit), least recent first
    gWin,       \* history: identifier -> [opened, calls, allowed] of its current window
    req,        \* the requests in flight: slot -> handler position and locals
    db,         \* prisma.analysis: the records saved so far
    gServed,    \* history: cache key -> the request that wrote the entry and what it answered
    envOk       \* process.env holds the required settings

vars == <<now, cache, limits, lastOp, gLive, gOrder, gWin, req, db, gServed, envOk>>

(***************************************************************************)
(* Bounds.  LRUCache and RateLimiter take their capacity, time-to-live,    *)
(* quota and window as constructor parameters; the model instantiates them *)
(* with small values and time with a short horizon.                        *)
(***************************************************************************)
MaxTime == 3          \* the clock stops here
MaxSize == 2          \* C: LRUCache maxSize
TtlUnits == 1         \* T: LRUCache ttl
MaxRequests == 2      \* R: RateLimiter maxRequests
WindowUnits == 2      \* W: RateLimiter windowMs
MaxCalls == 4         \* check calls counted per window of one identifier
MaxSlots == 2         \* requests in flight at once
MaxRepos == 1         \* repositories the list call returns

\* .slice(0, 8): repositories whose content is fetched
TopLimit == 8

\* JavaScript null / undefined / a header that is not sent
Null == [null |-> TRUE]

\* a Map with no entries
EmptyMap == [x \in {} |-> Null]

Min(a, b) == IF a <= b THEN a ELSE b

\* a JavaScript string value, a number value, and truthiness
Str(s) == [t |-> "string", v |-> s]

Num(n) == [t |-> "number", v |-> n]

Falsy(x) == x = Null \/ x = Str(<<>>) \/ x = Num(0)

(***************************************************************************)
(* Values.  A report is whatever JSON.parse makes of the model's reply: a  *)
(* JSON object, where shape says how it relates to HIRING_REPORT_SCHEMA    *)
(* and score stands for the numeric score fields, or another JSON value,   *)
(* of which the number 0 is the sample.                                    *)
(***************************************************************************)
ObjectReports ==
    { [id |-> "rA", shape |-> "conforms", score |-> 100],
      [id |-> "rC", shape |-> "conforms", score |-> 101] }

Reports == ObjectReports \cup {Num(0)}

\* lower case of a letter, or of a word that stands as one token
Lower(ch) ==
    CASE ch = "A" -> "a" [] ch = "B" -> "b" [] ch = "C" -> "c"
      [] ch = "Solidity" -> "solidity" [] ch = "Web3" -> "web3"
      [] ch = "Ethereum" -> "ethereum" [] ch = "DeFi" -> "defi"
      [] OTHER -> ch

\* String.prototype.toLowerCase
ToLowerCase(s) == [i \in 1..Len(s) |-> Lower(s[i])]

ReportA == [id |-> "rA", shape |-> "conforms", score |-> 100]

ReportB == [id |-> "rB", shape |-> "conforms", score |-> 0]

Usernames == { <<"A", "l">>, <<"a", "l">>, <<"b", "o">>, <<"c", "y">> }

\* `report:${username.toLowerCase()}`
CacheKeyOf(username) == <<"report:">> \o ToLowerCase(username)

CacheKeys == { CacheKeyOf(u) : u \in Usernames }

(***************************************************************************)
(* LRUCache                                                                *)
(***************************************************************************)
KeysOf(c) == { c[i].key : i \in 1..Len(c) }

\* Map.get: the entry stored under key (key must be present)
EntryOf(c, key) == c[CHOOSE i \in 1..Len(c) : c[i].key = key]

\* Map.delete
MapDelete(c, key) == SelectSeq(c, LAMBDA e : e.key # key)

\* a Map whose set moves an existing key to the end
MapSetMoveLast(c, e) == Append(SelectSeq(c, LAMBDA x : x.key # e.key), e)

\* Map.set: an existing key keeps its position, a new key goes last
MapSet(c, e) ==
    IF e.key \in KeysOf(c)
    THEN [i \in 1..Len(c) |-> IF c[i].key = e.key THEN e ELSE c[i]]
    ELSE Append(c, e)

\* a get that forgets to refresh the position of the entry it hit
CacheGetNoTouch(c, key, t) ==
    IF key \notin KeysOf(c) THEN [cache |-> c, result |-> Null]
    ELSE IF t > EntryOf(c, key).expiresAt
         THEN [cache |-> MapDelete(c, key), result |-> Null]
         ELSE [cache |-> c, result |-> EntryOf(c, key).data]

\* a get that treats the instant expiresAt as already expired
CacheGetEarly(c, key, t) ==
    IF key \notin KeysOf(c) THEN [cache |-> c, result |-> Null]
    ELSE IF t >= EntryOf(c, key).expiresAt
         THEN [cache |-> MapDelete(c, key), result |-> Null]
         ELSE [cache |-> Append(MapDelete(c, key), EntryOf(c, key)),
               result |-> EntryOf(c, key).data]

\* LRUCache.get at time t: the cache afterwards and the value returned
CacheGet(c, key, t) ==
    IF key \notin KeysOf(c) THEN [cache |-> c, result |-> Null]
    ELSE IF t > EntryOf(c, key).expiresAt
         THEN [cache |-> MapDelete(c, key), result |-> Null]
         ELSE [cache |-> Append(MapDelete(c, key), EntryOf(c, key)),
               result |-> EntryOf(c, key).data]

\* a set that leaves the entry of a key that is present as it is
CacheSetKeepFirst(c, key, value, t) ==
    IF key \in KeysOf(c) THEN c
    ELSE LET c1 == IF Len(c) >= MaxSize /\ Len(c) > 0 THEN MapDelete(c, c[1].key) ELSE c
         IN  Append(c1, [key |-> key, data |-> value, timestamp |-> t,
                         expiresAt |-> t + TtlUnits])

\* LRUCache.set at time t
CacheSet(c, key, value, t) ==
    LET c1 == IF Len(c) >= MaxSize /\ key \notin KeysOf(c) /\ Len(c) > 0
              THEN MapDelete(c, c[1].key)
              ELSE c
    IN  MapSet(c1, [key |-> key, data |-> value, timestamp |-> t,
                    expiresAt |-> t + TtlUnits])

\* LRUCache.has
CacheHas(c, key, t) ==
    [cache |-> CacheGet(c, key, t).cache, result |-> CacheGet(c, key, t).result # Null]

(***************************************************************************)
(* RateLimiter                                                             *)
(***************************************************************************)
\* a limiter that lets one request too many through
LimiterCheckOffByOne(l, id, t) ==
    IF id \notin DOMAIN l \/ t > l[id].resetAt
    THEN [limits |-> [x \in DOMAIN l \cup {id} |->
                        IF x = id THEN [count |-> 1, resetAt |-> t + WindowUnits]
                        ELSE l[x]],
          result |-> [allowed |-> TRUE, remaining |-> MaxRequests - 1,
                      resetAt |-> t + WindowUnits]]
    ELSE IF l[id].count > MaxRequests
    THEN [limits |-> l,
          result |-> [allowed |-> FALSE, remaining |-> 0, resetAt |-> l[id].resetAt]]
    ELSE [limits |-> [l EXCEPT ![id].count = @ + 1],
          result |-> [allowed |-> TRUE, remaining |-> MaxRequests - (l[id].count + 1),
                      resetAt |-> l[id].resetAt]]

\* a limiter that opens a new window already at the instant resetAt
LimiterCheckEarlyReset(l, id, t) ==
    IF id \notin DOMAIN l \/ t >= l[id].resetAt
    THEN [limits |-> [x \in DOMAIN l \cup {id} |->
                        IF x = id THEN [count |-> 1, resetAt |-> t + WindowUnits]
                        ELSE l[x]],
          result |-> [allowed |-> TRUE, remaining |-> MaxRequests - 1,
                      resetAt |-> t + WindowUnits]]
    ELSE IF l[id].count >= MaxRequests
    THEN [limits |-> l,
          result |-> [allowed |-> FALSE, remaining |-> 0, resetAt |-> l[id].resetAt]]
    ELSE [limits |-> [l EXCEPT ![id].count = @ + 1],
          result |-> [allowed |-> TRUE, remaining |-> MaxRequests - (l[id].count + 1),
                      resetAt |-> l[id].resetAt]]

\* a limiter whose denied check starts the window over
LimiterCheckPenalty(l, id, t) ==
    IF id \notin DOMAIN l \/ t > l[id].resetAt
    THEN [limits |-> [x \in DOMAIN l \cup {id} |->
                        IF x = id THEN [count |-> 1, resetAt |-> t + WindowUnits]
                        ELSE l[x]],
          result |-> [allowed |-> TRUE, remaining |-> MaxRequests - 1,
                      resetAt |-> t + WindowUnits]]
    ELSE IF l[id].count >= MaxRequests
    THEN [limits |-> [l EXCEPT ![id].resetAt = t + WindowUnits],
          result |-> [allowed |-> FALSE, remaining |-> 0, resetAt |-> l[id].resetAt]]
    ELSE [limits |-> [l EXCEPT ![id].count = @ + 1],
          result |-> [allowed |-> TRUE, remaining |-> MaxRequests - (l[id].count + 1),
                      resetAt |-> l[id].resetAt]]

\* RateLimiter.check at time t: the map afterwards and the result returned
LimiterCheck(l, id, t) ==
    IF id \notin DOMAIN l \/ t > l[id].resetAt
    THEN [limits |-> [x \in DOMAIN l \cup {id} |->
                        IF x = id THEN [count |-> 1, resetAt |-> t + WindowUnits]
                        ELSE l[x]],
          result |-> [allowed |-> TRUE, remaining |-> MaxRequests - 1,
                      resetAt |-> t + WindowUnits]]
    ELSE IF l[id].count >= MaxRequests
    THEN [limits |-> l,
          result |-> [allowed |-> FALSE, remaining |-> 0, resetAt |-> l[id].resetAt]]
    ELSE [limits |-> [l EXCEPT ![id].count = @ + 1],
          result |-> [allowed |-> TRUE, remaining |-> MaxRequests - (l[id].count + 1),
                      resetAt |-> l[id].resetAt]]

\* a sweep that already removes a window at its last instant
LimiterCleanupEager(l, t) ==
    [x \in { y \in DOMAIN l : ~(t >= l[y].resetAt) } |-> l[x]]

\* RateLimiter.cleanup at time t
LimiterCleanup(l, t) ==
    [x \in { y \in DOMAIN l : ~(t > l[y].resetAt) } |-> l[x]]

\* RateLimiter.reset
LimiterReset(l, id) == [x \in DOMAIN l \ {id} |-> l[x]]

(***************************************************************************)
(* History of the cache, kept by the rules of its contract and not by its  *)
(* code: which set of a key still stands, and the order of last use.       *)
(***************************************************************************)
RangeOf(s) == { s[i] : i \in 1..Len(s) }

Without(s, k) == SelectSeq(s, LAMBDA x : x # k)

Restrict(f, S) == [x \in S |-> f[x]]

\* the key has a standing set that has expired at time t
GhostExpired(live, key, t) ==
    IF key \in DOMAIN live THEN t > live[key].t0 + TtlUnits ELSE TRUE

\* the standing sets that can still be read at time t
GhostLiveAt(live, t) ==
    [x \in { k \in DOMAIN live : t <= live[k].t0 + TtlUnits } |-> live[x]]

\* order of last use after a get at time t
GhostOrderGet(live, order, key, t) ==
    IF key \notin RangeOf(order) THEN order
    ELSE IF GhostExpired(live, key, t) THEN Without(order, key)
    ELSE Append(Without(order, key), key)

\* the key a set makes room for: the least recently used one, when full
GhostVictim(order, key) ==
    IF key \notin RangeOf(order) /\ Len(order) >= MaxSize /\ Len(order) > 0
    THEN {order[1]} ELSE {}

GhostOrderSet(order, key) ==
    IF key \in RangeOf(order) THEN order
    ELSE Append(SelectSeq(order, LAMBDA x : x \notin GhostVictim(order, key)), key)

GhostLiveSet(live, order, key, value, t) ==
    [x \in (DOMAIN live \ GhostVictim(order, key)) \cup {key} |->
        IF x = key THEN [value |-> value, t0 |-> t] ELSE live[x]]

(***************************************************************************)
(* History of the limiter: the window of an identifier runs from the check *)
(* that opens it until opened + W, whatever the sweep does to the map.     *)
(***************************************************************************)
GhostOpens(win, id, t) ==
    IF id \notin DOMAIN win THEN TRUE ELSE t > win[id].opened + WindowUnits

GhostCheck(win, id, t, allowed) ==
    [x \in DOMAIN win \cup {id} |->
        IF x # id THEN win[x]
        ELSE IF GhostOpens(win, id, t)
             THEN [opened |-> t, calls |-> 1, allowed |-> IF allowed THEN 1 ELSE 0]
             ELSE [opened |-> win[id].opened, calls |-> win[id].calls + 1,
                   allowed |-> win[id].allowed + (IF allowed THEN 1 ELSE 0)]]

\* a further check of id is counted (the count of calls per window is capped)
CanCheck(win, id, t) ==
    IF GhostOpens(win, id, t) THEN TRUE ELSE win[id].calls < MaxCalls

(***************************************************************************)
(* The clock, and the initial state shared by the three specifications     *)
(***************************************************************************)
Slots == 1..MaxSlots

\* a free slot: no request, every local of the handler unset
IdleReq ==
    [pc |-> "idle", username |-> <<>>, cacheKey |-> <<>>,
     nRepos |-> 0, nTop |-> 0, i |-> 0, report |-> Null, resp |-> Null, trace |-> <<>>]

NoOp == [op |-> "none"]

\* no handler has a response waiting to be released
Quiet == \A s \in Slots : req[s].pc # "done"

Init ==
    /\ now = 0
    /\ cache = <<>>
    /\ limits = EmptyMap
    /\ lastOp = NoOp
    /\ gLive = EmptyMap
    /\ gOrder = <<>>
    /\ gWin = EmptyMap
    /\ req = [s \in Slots |-> IdleReq]
    /\ db = {}
    /\ gServed = EmptyMap
    /\ envOk = TRUE

\* time passes between two operations
Tick ==
    /\ Quiet
    /\ now < MaxTime
    /\ now' = now + 1
    /\ lastOp' = NoOp
    /\ gLive' = GhostLiveAt(gLive, now + 1)
    /\ gServed' = Restrict(gServed, DOMAIN gServed \cap DOMAIN gLive')
    /\ UNCHANGED <<cache, limits, gOrder, gWin, req, db, envOk>>

(***************************************************************************)
(* SpecCache: the cache driven directly                                    *)
(***************************************************************************)
CacheValues == {ReportA, ReportB}

CGet(key) ==
    /\ cache' = CacheGet(cache, key, now).cache
    /\ lastOp' = [op |-> "get", key |-> key, result |-> CacheGet(cache, key, now).result]
    /\ gOrder' = GhostOrderGet(gLive, gOrder, key, now)
    /\ UNCHANGED <<now, limits, gLive, gWin, req, db, gServed, envOk>>

CHas(key) ==
    /\ cache' = CacheHas(cache, key, now).cache
    /\ lastOp' = [op |-> "has", key |-> key, result |-> CacheHas(cache, key, now).result]
    /\ gOrder' = GhostOrderGet(gLive, gOrder, key, now)
    /\ UNCHANGED <<now, limits, gLive, gWin, req, db, gServed, envOk>>

CSet(key, value) ==
    /\ cache' = CacheSet(cache, key, value, now)
    /\ lastOp' = [op |-> "set", key |-> key, value |-> value,
                  fresh |-> key \notin RangeOf(gOrder),
                  full |-> Len(gOrder) = MaxSize,
                  victim |-> GhostVictim(gOrder, key),
                  victimT0 |-> { gLive[x].t0 : x \in GhostVictim(gOrder, key) \cap DOMAIN gLive },
                  before |-> RangeOf(gOrder)]
    /\ gOrder' = GhostOrderSet(gOrder, key)
    /\ gLive' = GhostLiveSet(gLive, gOrder, key, value, now)
    /\ UNCHANGED <<now, limits, gWin, req, db, gServed, envOk>>

CClear ==
    /\ cache' = <<>>
    /\ lastOp' = [op |-> "clear"]
    /\ gOrder' = <<>>
    /\ gLive' = EmptyMap
    /\ UNCHANGED <<now, limits, gWin, req, db, gServed, envOk>>

NextCache ==
    \/ Tick
    \/ \E key \in CacheKeys : CGet(key)
    \/ \E key \in CacheKeys : CHas(key)
    \/ \E key \in CacheKeys, value \in CacheValues : CSet(key, value)
    \/ CClear

SpecCache == Init /\ [][NextCache]_vars

(***************************************************************************)
(* SpecLimiter: the limiter driven directly                                *)
(***************************************************************************)
Identifiers == {"ip1", "ip2"}

LCheck(id) ==
    /\ CanCheck(gWin, id, now)
    /\ limits' = LimiterCheck(limits, id, now).limits
    /\ lastOp' = [op |-> "check", id |-> id, result |-> LimiterCheck(limits, id, now).result]
    /\ gWin' = GhostCheck(gWin, id, now, LimiterCheck(limits, id, now).result.allowed)
    /\ UNCHANGED <<now, cache, gLive, gOrder, req, db, gServed, envOk>>

\* the setInterval callback of the constructor
LCleanup ==
    /\ Quiet
    /\ limits' = LimiterCleanup(limits, now)
    /\ lastOp' = NoOp
    /\ UNCHANGED <<now, cache, gLive, gOrder, gWin, req, db, gServed, envOk>>

LReset(id) ==
    /\ limits' = LimiterReset(limits, id)
    /\ lastOp' = [op |-> "reset", id |-> id]
    /\ gWin' = Restrict(gWin, DOMAIN gWin \ {id})
    /\ UNCHANGED <<now, cache, gLive, gOrder, req, db, gServed, envOk>>

NextLimiter ==
    \/ Tick
    \/ \E id \in Identifiers : LCheck(id)
    \/ LCleanup
    \/ \E id \in Identifiers : LReset(id)

SpecLimiter == Init /\ [][NextLimiter]_vars

(***************************************************************************)
(* Claims about the cache (SpecCache)                                      *)
(***************************************************************************)
\* what the contract says a get of key returns at time t
Expected(live, key, t) ==
    IF key \in DOMAIN live /\ t <= live[key].t0 + TtlUnits THEN live[key].value ELSE Null

\* C1: a key set at t0 and not overwritten, cleared or evicted since is
\* returned by get at every time <= t0 + T and absent at every later time;
\* a get or has after expiry removes the entry; a set of a key that is not
\* stored puts the new value last, expiring at now + T.
C1_TtlContract ==
    /\ lastOp.op = "get" => lastOp.result = Expected(gLive, lastOp.key, now)
    /\ lastOp.op = "has" => lastOp.result = (Expected(gLive, lastOp.key, now) # Null)
    /\ lastOp.op \in {"get", "has"} /\ GhostExpired(gLive, lastOp.key, now)
         => lastOp.key \notin KeysOf(cache)
    /\ lastOp.op = "set" /\ lastOp.fresh
         => /\ Len(cache) > 0
            /\ cache[Len(cache)] = [key |-> lastOp.key, data |-> lastOp.value,
                                    timestamp |-> now, expiresAt |-> now + TtlUnits]

\* a get after expiry has removed the entry, and the key has been set again later
C1_Witness ==
    /\ lastOp.op = "get"
    /\ lastOp.key \in DOMAIN gLive
    /\ lastOp.result = gLive[lastOp.key].value
    /\ now = gLive[lastOp.key].t0 + TtlUnits
    /\ gLive[lastOp.key].t0 > TtlUnits

\* C2: the cache never holds more than C entries; a set of a key that is not
\* stored, into a full cache, removes exactly the least recently used key,
\* where a get that hits makes its key the most recently used.
C2_CapacityLru ==
    /\ Len(cache) <= MaxSize
    /\ KeysOf(cache) = RangeOf(gOrder)
    /\ Len(cache) = Cardinality(KeysOf(cache))
    /\ lastOp.op = "set" /\ lastOp.fresh /\ lastOp.full
         => /\ Cardinality(lastOp.victim) = 1
            /\ KeysOf(cache) = (lastOp.before \ lastOp.victim) \cup {lastOp.key}
    /\ lastOp.op = "set" /\ ~(lastOp.fresh /\ lastOp.full)
         => KeysOf(cache) = lastOp.before \cup {lastOp.key}
    /\ lastOp.op = "get" /\ lastOp.result # Null
         => cache[Len(cache)].key = lastOp.key

\* a full cache has just evicted a key that is not the oldest inserted one
C2_Witness ==
    /\ lastOp.op = "set" /\ lastOp.fresh /\ lastOp.full
    /\ Len(cache) = MaxSize
    /\ lastOp.victim # {}
    /\ \E k \in KeysOf(cache) \ {lastOp.key} :
          \E t \in lastOp.victimT0 : EntryOf(cache, k).timestamp < t

\* C24: a set of a key that is stored replaces its value, with timestamp now
\* and expiresAt = now + T, at the place where the key stands: no entry is
\* removed, full cache or not, the size stays, every other entry stays as
\* it is, and the keys stand in the same order as before.
C24_OverwriteInPlace ==
    [][(lastOp'.op = "set" /\ lastOp'.key \in KeysOf(cache)) =>
          /\ Len(cache') = Len(cache)
          /\ \A i \in 1..Len(cache) :
                /\ cache'[i].key = cache[i].key
                /\ cache[i].key # lastOp'.key => cache'[i] = cache[i]
                /\ cache[i].key = lastOp'.key =>
                      cache'[i] = [key |-> lastOp'.key, data |-> lastOp'.value,
                                   timestamp |-> now, expiresAt |-> now + TtlUnits]]_vars

\* in a full cache the key in the first place has been given another value,
\* later than the other key was stored, and still stands first
C24_Witness ==
    /\ lastOp.op = "set" /\ ~lastOp.fresh
    /\ Len(cache) = MaxSize
    /\ cache[1].key = lastOp.key
    /\ cache[1].data = lastOp.value
    /\ cache[1].timestamp = now
    /\ \A i \in 2..Len(cache) : cache[i].timestamp < now /\ cache[i].data # lastOp.value

(***************************************************************************)
(* Claims about the limiter (SpecLimiter)                                  *)
(***************************************************************************)
\* C3: in the window opened by a first check at time t, the k-th check
\* (k <= R) is allowed with remaining = R - k and resetAt = t + W, every
\* later check of the window is denied, and the first check after resetAt
\* opens a new window.
C3_Windowing ==
    lastOp.op = "check" =>
        LET w == gWin[lastOp.id]
            r == lastOp.result
        IN  /\ w.calls <= MaxRequests
                 => r = [allowed |-> TRUE, remaining |-> MaxRequests - w.calls,
                         resetAt |-> w.opened + WindowUnits]
            /\ w.calls > MaxRequests => ~r.allowed
            /\ w.calls = 1 => w.opened = now

\* the (R+1)-th check of a window has been denied
C3_Witness ==
    /\ lastOp.op = "check"
    /\ gWin[lastOp.id].calls = MaxRequests + 1
    /\ ~lastOp.result.allowed
    /\ gWin[lastOp.id].opened > 0

\* this step is a check of the limiter
CheckStep == lastOp'.op = "check" /\ gWin' # gWin

\* C22: a check that finds count >= R in an active window is denied with
\* remaining = 0 and the resetAt the window has had since it opened, and
\* leaves the whole map as it was, the entry of the identifier and those of
\* all others; however many checks are denied, the window still ends at
\* opened + W and the first check after that instant is allowed.
C22_DeniedCheckInert ==
    /\ [](lastOp.op = "check" /\ ~lastOp.result.allowed =>
            /\ lastOp.result.remaining = 0
            /\ lastOp.result.resetAt = gWin[lastOp.id].opened + WindowUnits
            /\ limits[lastOp.id] = [count |-> MaxRequests,
                                    resetAt |-> gWin[lastOp.id].opened + WindowUnits])
    /\ [][CheckStep =>
            /\ ~lastOp'.result.allowed =>
                  /\ limits' = limits
                  /\ lastOp'.id \in DOMAIN limits
                  /\ now <= limits[lastOp'.id].resetAt
                  /\ limits[lastOp'.id].count >= MaxRequests
                  /\ lastOp'.result.resetAt = limits[lastOp'.id].resetAt
            /\ (lastOp'.id \in DOMAIN limits /\ now > limits[lastOp'.id].resetAt) =>
                  lastOp'.result.allowed]_vars

\* the second denied check of a window, at its last instant, while another
\* identifier has a window of its own
C22_Witness ==
    /\ lastOp.op = "check" /\ ~lastOp.result.allowed
    /\ gWin[lastOp.id].calls = MaxRequests + 2
    /\ now = gWin[lastOp.id].opened + WindowUnits
    /\ \E id \in DOMAIN limits : id # lastOp.id

\* the map of the limiter as the same checks and resets leave it when no
\* sweep ever runs, told from the history of the windows
Unswept ==
    [id \in DOMAIN gWin |->
        [count |-> gWin[id].allowed, resetAt |-> gWin[id].opened + WindowUnits]]

\* this step is a run of the sweep
SweepStep == now' = now /\ gWin' = gWin /\ lastOp' = NoOp

\* C23: the sweep does not show in any check.  Unswept moves by the code of
\* check and reset alone and stands still when the sweep runs; every check
\* returns what it returns on Unswept, and in every state the next check of
\* every identifier would; the map differs from Unswept only by identifiers
\* the sweep removed, and it removes none but those with now > resetAt.
C23_SweepUnobservable ==
    /\ [](/\ DOMAIN limits \subseteq DOMAIN gWin
          /\ \A id \in DOMAIN limits : limits[id] = Unswept[id]
          /\ \A id \in DOMAIN gWin \ DOMAIN limits : now > Unswept[id].resetAt
          /\ \A id \in Identifiers :
                LimiterCheck(limits, id, now).result = LimiterCheck(Unswept, id, now).result)
    /\ [][/\ CheckStep =>
              /\ lastOp'.result = LimiterCheck(Unswept, lastOp'.id, now).result
              /\ Unswept' = LimiterCheck(Unswept, lastOp'.id, now).limits
          /\ lastOp'.op = "reset" => Unswept' = LimiterReset(Unswept, lastOp'.id)
          /\ SweepStep =>
              /\ Unswept' = Unswept
              /\ DOMAIN limits' \subseteq DOMAIN limits
              /\ \A id \in DOMAIN limits' : limits'[id] = limits[id]
              /\ \A id \in DOMAIN limits \ DOMAIN limits' : now > limits[id].resetAt]_vars

\* a check is denied after the sweep has removed the expired window of
\* another identifier
C23_Witness ==
    /\ lastOp.op = "check" /\ ~lastOp.result.allowed
    /\ \E id \in DOMAIN gWin \ DOMAIN limits : id # lastOp.id

(***************************************************************************)
(* Strings of the handler, as sequences of tokens: a letter, a separator,  *)
(* or a fixed piece of a URL.                                              *)
(***************************************************************************)
HasSlash(tok) == tok \in {"/", "https://", "http://"}

HasDot(tok) == tok \in {".", "github.com", "www."}

\* String.prototype.trim
RECURSIVE TrimLeft(_)
TrimLeft(s) == IF s # <<>> /\ Head(s) = " " THEN TrimLeft(Tail(s)) ELSE s

RECURSIVE TrimRight(_)
TrimRight(s) ==
    IF s # <<>> /\ s[Len(s)] = " " THEN TrimRight(SubSeq(s, 1, Len(s) - 1)) ELSE s

Trim(s) == TrimRight(TrimLeft(s))

\* the prefixes of the four patterns of parseGitHubUsername
UrlPrefixes ==
    { <<"https://", "github.com", "/">>, <<"http://", "github.com", "/">>,
      <<"github.com", "/">>,
      <<"www.", "github.com", "/">>,
      <<"https://", "www.", "github.com", "/">>, <<"http://", "www.", "github.com", "/">> }

\* one pattern ^prefix([^/]+)/?$ applied to s: the set holding capture group 1
MatchPrefix(s, prefix) ==
    IF Len(s) > Len(prefix) /\ SubSeq(s, 1, Len(prefix)) = prefix
    THEN LET rest == SubSeq(s, Len(prefix) + 1, Len(s))
             name == IF rest[Len(rest)] = "/" THEN SubSeq(rest, 1, Len(rest) - 1) ELSE rest
         IN  IF name # <<>> /\ \A i \in 1..Len(name) : ~HasSlash(name[i])
             THEN {name} ELSE {}
    ELSE {}

\* parseGitHubUsername: the user name as a string value, or Null
ParseGitHubUsername(url) ==
    LET cleaned == Trim(url)
        found == UNION { MatchPrefix(cleaned, p) : p \in UrlPrefixes }
    IN  IF \A i \in 1..Len(cleaned) : ~HasSlash(cleaned[i]) /\ ~HasDot(cleaned[i])
        THEN Str(cleaned)
        ELSE IF found # {} THEN Str(CHOOSE n \in found : TRUE) ELSE Null

\* String.prototype.split(',')[0]
RECURSIVE FirstField(_)
FirstField(s) ==
    IF s = <<>> \/ Head(s) = "," THEN <<>> ELSE <<Head(s)>> \o FirstField(Tail(s))

\* String(n) of a small number
NumberToString(n) == <<"0", "1", "2", "3", "4", "5", "6", "7", "8", "9">>[n + 1]

\* an identifier that falls back to the user-agent alone
GetClientIdentifierByAgent(h, t) ==
    IF ~Falsy(h.forwarded) THEN Trim(FirstField(h.forwarded.v))
    ELSE IF ~Falsy(h.realIp) THEN h.realIp.v
    ELSE IF ~Falsy(h.cfConnecting) THEN h.cfConnecting.v
    ELSE IF ~Falsy(h.userAgent) THEN h.userAgent.v ELSE <<"unknown">>

\* getClientIdentifier at time t
GetClientIdentifier(h, t) ==
    IF ~Falsy(h.forwarded) THEN Trim(FirstField(h.forwarded.v))
    ELSE IF ~Falsy(h.realIp) THEN h.realIp.v
    ELSE IF ~Falsy(h.cfConnecting) THEN h.cfConnecting.v
    ELSE (IF ~Falsy(h.userAgent) THEN h.userAgent.v ELSE <<"unknown">>) \o <<"-", NumberToString(t)>>

(***************************************************************************)
(* The outside world: what a request carries, what GitHub, the model and   *)
(* the database answer.                                                    *)
(***************************************************************************)
NoHeaders == [forwarded |-> Null, realIp |-> Null, cfConnecting |-> Null, userAgent |-> Str(<<"ua">>)]

HeaderSets ==
    { [NoHeaders EXCEPT !.forwarded = Str(<<"ip1", ",", " ", "ip9">>)],
      [NoHeaders EXCEPT !.realIp = Str(<<"ip1">>)],
      [NoHeaders EXCEPT !.cfConnecting = Str(<<"ip1">>)] }

ProfileUrls ==
    { <<"A", "l">>,
      <<" ", "https://", "github.com", "/", "a", "l", "/">>,
      <<"github.com", "/", "a", "l", "/", "x">>,
      <<" ">> }

\* request bodies: not JSON at all, no profileUrl, a number, a string
Bodies ==
    { [json |-> FALSE], [json |-> TRUE, profileUrl |-> Null],
      [json |-> TRUE, profileUrl |-> Num(42)] }
    \cup { [json |-> TRUE, profileUrl |-> Str(u)] : u \in ProfileUrls }

\* HTTP status of an upstream answer; 0 stands for no answer (fetch rejects)
UpstreamStatuses == {0, 200, 403, 404, 500}

\* the answer of the chat completion call
ModelReplies ==
    { [kind |-> "error"], [kind |-> "noContent"],
      [kind |-> "content", wellFormed |-> FALSE] }
    \cup { [kind |-> "content", wellFormed |-> TRUE, value |-> r] : r \in Reports }

\* githubFetch: the parsed answer, or the error thrown
GithubFetch(status) ==
    IF status = 0 THEN [ok |-> FALSE, error |-> [name |-> "TypeError"]]
    ELSE IF status \in 200..299 THEN [ok |-> TRUE]
    ELSE [ok |-> FALSE, error |-> [name |-> "GitHubAPIError", statusCode |-> status]]

\* a handler that reports an upstream 403 as its own rate limit
SummaryFailureAs429(error) ==
    IF error.name = "GitHubAPIError" /\ error.statusCode = 404 THEN 404
    ELSE IF error.name = "GitHubAPIError" /\ error.statusCode = 403 THEN 429
    ELSE 500

\* the catch around fetchGitHubSummary, and the outer catch for what it rethrows
SummaryFailure(error) ==
    IF error.name = "GitHubAPIError" /\ error.statusCode = 404 THEN 404
    ELSE IF error.name = "GitHubAPIError" /\ error.statusCode = 403 THEN 503
    ELSE 500

\* JSON.parse
JsonParse(text) ==
    IF text.wellFormed THEN [ok |-> TRUE, value |-> text.value] ELSE [ok |-> FALSE]

\* a generator that hands back an empty report when the reply cannot be parsed
GenerateLenient(reply) ==
    IF reply.kind = "error" THEN [ok |-> FALSE]
    ELSE IF reply.kind = "noContent" THEN [ok |-> FALSE]
    ELSE IF JsonParse(reply).ok THEN [ok |-> TRUE, report |-> JsonParse(reply).value]
    ELSE [ok |-> TRUE, report |-> [id |-> "empty", shape |-> "missingField", score |-> 0]]

\* generateHiringReport: the report, or failure
GenerateHiringReport(reply) ==
    IF reply.kind = "error" THEN [ok |-> FALSE]
    ELSE IF reply.kind = "noContent" THEN [ok |-> FALSE]
    ELSE IF JsonParse(reply).ok THEN [ok |-> TRUE, report |-> JsonParse(reply).value]
    ELSE [ok |-> FALSE]

\* a handler that answers 503 when the record could not be saved
PersistResponseUnavailable(ok, report, username) ==
    IF ok
    THEN [status |-> 200, cached |-> FALSE, report |-> report,
          username |-> username, resetAt |-> Null]
    ELSE [status |-> 503, cached |-> Null, report |-> Null,
          username |-> Null, resetAt |-> Null]

\* the response after prisma.analysis.create resolved (ok) or rejected
PersistResponse(ok, report, username) ==
    [status |-> 200, cached |-> FALSE, report |-> report,
     username |-> username, resetAt |-> Null]

\* NextResponse.json
Response(status, cached, report, username, resetAt) ==
    [status |-> status, cached |-> cached, report |-> report,
     username |-> username, resetAt |-> resetAt]

Finished(r, resp) == [r EXCEPT !.pc = "done", !.resp = resp]

Logged(r, entry) == [r EXCEPT !.trace = Append(@, entry)]

(***************************************************************************)
(* Spec: POST /analyze.  One action per stretch of the handler between two *)
(* awaits; requests in different slots interleave at these points.  A      *)
(* handler that has returned stays visible as "done" for one step; the     *)
(* event loop releases its slot before anything else runs.                 *)
(***************************************************************************)
\* a handler that reads the body without asking the limiter
ReceiveUncharged(s, h) ==
    /\ Quiet
    /\ req[s].pc = "idle"
    /\ req' = [req EXCEPT ![s] =
                  IF ~envOk
                  THEN Finished(Logged(IdleReq, [step |-> "env"]),
                                Response(500, Null, Null, Null, Null))
                  ELSE [IdleReq EXCEPT !.pc = "json"]]
    /\ UNCHANGED <<now, cache, limits, lastOp, gLive, gOrder, gWin, db, gServed, envOk>>

\* validateEnv, getClientIdentifier, rateLimiter.check; then await request.json()
Receive(s, h) ==
    /\ Quiet
    /\ req[s].pc = "idle"
    /\ IF ~envOk
       THEN /\ req' = [req EXCEPT ![s] =
                          Finished(Logged(IdleReq, [step |-> "env"]),
                                   Response(500, Null, Null, Null, Null))]
            /\ UNCHANGED <<limits, gWin>>
       ELSE LET id == GetClientIdentifier(h, now)
                chk == LimiterCheck(limits, id, now)
                win == GhostCheck(gWin, id, now, chk.result.allowed)
                r0 == Logged(IdleReq,
                             IF chk.result.allowed
                             THEN [step |-> "check", allowed |-> TRUE]
                             ELSE [step |-> "check", allowed |-> FALSE,
                                   windowEnd |-> win[id].opened + WindowUnits])
            IN  /\ CanCheck(gWin, id, now)
                /\ limits' = chk.limits
                /\ gWin' = win
                /\ req' = [req EXCEPT ![s] =
                              IF ~chk.result.allowed
                              THEN Finished(r0, Response(429, Null, Null, Null,
                                                         chk.result.resetAt))
                              ELSE [r0 EXCEPT !.pc = "json"]]
    /\ UNCHANGED <<now, cache, lastOp, gLive, gOrder, db, gServed, envOk>>

\* body parsed, profileUrl validated, user name extracted, cache looked up;
\* on a miss: await fetchGitHubProfile
ReadBody(s, b) ==
    LET r == req[s]
        bad(status) == Finished(Logged(r, [step |-> "body", body |-> b]),
                                Response(status, Null, Null, Null, Null))
        u == ParseGitHubUsername(b.profileUrl.v)
        key == CacheKeyOf(u.v)
        g == CacheGet(cache, key, now)
        r1 == Logged([r EXCEPT !.username = u.v, !.cacheKey = key],
                     [step |-> "lookup", hit |-> ~Falsy(g.result)])
    IN  /\ Quiet
        /\ r.pc = "json"
        /\ IF ~b.json
           THEN req' = [req EXCEPT ![s] = bad(500)] /\ UNCHANGED <<cache, gOrder>>
           ELSE IF Falsy(b.profileUrl)
           THEN req' = [req EXCEPT ![s] = bad(400)] /\ UNCHANGED <<cache, gOrder>>
           ELSE IF b.profileUrl.t # "string"
           THEN req' = [req EXCEPT ![s] = bad(400)] /\ UNCHANGED <<cache, gOrder>>
           ELSE IF Falsy(u)
           THEN req' = [req EXCEPT ![s] = bad(400)] /\ UNCHANGED <<cache, gOrder>>
           ELSE /\ cache' = g.cache
                /\ gOrder' = GhostOrderGet(gLive, gOrder, key, now)
                /\ req' = [req EXCEPT ![s] =
                              IF ~Falsy(g.result)
                              THEN Finished(r1, Response(200, TRUE, g.result, u.v, Null))
                              ELSE [r1 EXCEPT !.pc = "profile"]]
        /\ UNCHANGED <<now, limits, lastOp, gLive, gWin, db, gServed, envOk>>

\* fetchGitHubProfile answered; on success: await the repository list
FetchProfile(s, status) ==
    LET r == Logged(req[s], [step |-> "profile", status |-> status])
        f == GithubFetch(status)
    IN  /\ Quiet
        /\ req[s].pc = "profile"
        /\ req' = [req EXCEPT ![s] =
                      IF f.ok THEN [r EXCEPT !.pc = "repos"]
                      ELSE Finished(r, Response(SummaryFailure(f.error),
                                                Null, Null, Null, Null))]
        /\ UNCHANGED <<now, cache, limits, lastOp, gLive, gOrder, gWin, db, gServed, envOk>>

\* a handler that builds the payload before it runs the detection
AfterContentUnordered(r) ==
    [Logged(Logged(Logged(Logged(r, [step |-> "content", n |-> r.nTop]), [step |-> "detect"]),
                   [step |-> "aggregate"]), [step |-> "detect"])
        EXCEPT !.i = 0, !.nTop = 0, !.nRepos = 0, !.pc = "llm"]

\* the loop over topRepos is through: fetchGitHubSummary runs detectWeb3
\* over the repositories and returns, the handler runs detectWeb3 over them
\* again, then buildAnalysisPayload, then await generateHiringReport
AfterContent(r) ==
    [Logged(Logged(Logged(Logged(r, [step |-> "content", n |-> r.nTop]), [step |-> "detect"]),
                   [step |-> "detect"]), [step |-> "aggregate"])
        EXCEPT !.i = 0, !.nTop = 0, !.nRepos = 0, !.pc = "llm"]

\* a collector that never leaves the loop over the listed repositories
AfterLanguagesAgain(r, m) == [r EXCEPT !.i = 0]

\* the loop over the listed repositories is through: sort, slice, and the m
\* top repositories go to the content fetch
AfterLanguages(r, m) ==
    IF m > 0
    THEN [Logged(r, [step |-> "languages", n |-> r.nRepos])
             EXCEPT !.i = 0, !.nTop = m, !.pc = "content"]
    ELSE AfterContent(Logged(r, [step |-> "languages", n |-> r.nRepos]))

\* the repository list answered with n repositories; on success: await the
\* language fetch of the first one, or the model if there is none
FetchRepos(s, status, n) ==
    LET r == Logged(req[s], [step |-> "repos", status |-> status])
        f == GithubFetch(status)
    IN  /\ Quiet
        /\ req[s].pc = "repos"
        /\ ~f.ok => n = 0
        /\ req' = [req EXCEPT ![s] =
                      IF f.ok
                      THEN IF n > 0 THEN [r EXCEPT !.pc = "lang", !.nRepos = n]
                           ELSE AfterLanguages(r, 0)
                      ELSE Finished(r, Response(SummaryFailure(f.error),
                                                Null, Null, Null, Null))]
        /\ UNCHANGED <<now, cache, limits, lastOp, gLive, gOrder, gWin, db, gServed, envOk>>

\* one per-repository language fetch answered; its failure is swallowed.
\* After the last one the list is sorted and m repositories, neither fork
\* nor archived, at most 8, are kept for the content fetch.
FetchLanguages(s, status, m) ==
    LET r == req[s]
    IN  /\ Quiet
        /\ req[s].pc = "lang"
        /\ m <= Min(r.nRepos, TopLimit)
        /\ r.i + 1 < r.nRepos => m = 0
        /\ req' = [req EXCEPT ![s] =
                      IF r.i + 1 < r.nRepos THEN [r EXCEPT !.i = @ + 1]
                      ELSE AfterLanguages(r, m)]
        /\ UNCHANGED <<now, cache, limits, lastOp, gLive, gOrder, gWin, db, gServed, envOk>>

\* fetchRepoContent of one top repository returned or threw; after the last
\* one: detection, aggregation, and await the model
FetchContent(s, ok) ==
    LET r == req[s]
    IN  /\ Quiet
        /\ req[s].pc = "content"
        /\ req' = [req EXCEPT ![s] =
                      IF r.i + 1 < r.nTop THEN [r EXCEPT !.i = @ + 1]
                      ELSE AfterContent(r)]
        /\ UNCHANGED <<now, cache, limits, lastOp, gLive, gOrder, gWin, db, gServed, envOk>>

\* the model answered; on success reportCache.set, then await prisma.analysis.create
Generate(s, reply) ==
    LET r == Logged(req[s], [step |-> "llm", reply |-> reply])
        g == GenerateHiringReport(reply)
        key == r.cacheKey
    IN  /\ Quiet
        /\ req[s].pc = "llm"
        /\ IF ~g.ok
           THEN /\ req' = [req EXCEPT ![s] =
                              Finished(r, Response(500, Null, Null, Null, Null))]
                /\ UNCHANGED <<cache, gLive, gOrder, gServed>>
           ELSE /\ cache' = CacheSet(cache, key, g.report, now)
                /\ gLive' = GhostLiveSet(gLive, gOrder, key, g.report, now)
                /\ gOrder' = GhostOrderSet(gOrder, key)
                /\ gServed' = [x \in (DOMAIN gServed \cap DOMAIN gLive') \cup {key} |->
                                  IF x = key
                                  THEN [by |-> s, username |-> r.username,
                                        report |-> Null, saved |-> FALSE]
                                  ELSE gServed[x]]
                /\ req' = [req EXCEPT ![s] =
                              [Logged(r, [step |-> "cacheSet"]) EXCEPT
                                  !.pc = "db", !.report = g.report]]
        /\ UNCHANGED <<now, limits, lastOp, gWin, db, envOk>>

\* prisma.analysis.create resolved or rejected; the response is sent either way
Persist(s, ok) ==
    LET r == Logged(req[s], [step |-> "persist", ok |-> ok])
        key == r.cacheKey
    IN  /\ Quiet
        /\ req[s].pc = "db"
        /\ db' = IF ok
                 THEN db \cup {[username |-> ToLowerCase(r.username), report |-> r.report]}
                 ELSE db
        /\ gServed' = IF key \in DOMAIN gServed /\ gServed[key].by = s
                      THEN [gServed EXCEPT ![key].report = r.report, ![key].saved = ok]
                      ELSE gServed
        /\ req' = [req EXCEPT ![s] =
                      Finished(r, PersistResponse(ok, r.report, r.username))]
        /\ UNCHANGED <<now, cache, limits, lastOp, gLive, gOrder, gWin, envOk>>

\* the response has been delivered; the slot is free for the next request
Finish(s) ==
    /\ req[s].pc = "done"
    /\ req' = [req EXCEPT ![s] = IdleReq]
    /\ UNCHANGED <<now, cache, limits, lastOp, gLive, gOrder, gWin, db, gServed, envOk>>

InitHandler ==
    /\ now = 0
    /\ cache = <<>>
    /\ limits = EmptyMap
    /\ lastOp = NoOp
    /\ gLive = EmptyMap
    /\ gOrder = <<>>
    /\ gWin = EmptyMap
    /\ req = [s \in Slots |-> IdleReq]
    /\ db = {}
    /\ gServed = EmptyMap
    /\ envOk \in BOOLEAN

Next ==
    \/ Tick
    \/ LCleanup
    \/ \E s \in Slots, h \in HeaderSets : Receive(s, h)
    \/ \E s \in Slots, b \in Bodies : ReadBody(s, b)
    \/ \E s \in Slots, status \in UpstreamStatuses : FetchProfile(s, status)
    \/ \E s \in Slots, status \in UpstreamStatuses, n \in 0..MaxRepos :
          FetchRepos(s, status, n)
    \/ \E s \in Slots, status \in UpstreamStatuses, m \in 0..MaxRepos :
          FetchLanguages(s, status, m)
    \/ \E s \in Slots, ok \in BOOLEAN : FetchContent(s, ok)
    \/ \E s \in Slots, reply \in ModelReplies : Generate(s, reply)
    \/ \E s \in Slots, ok \in BOOLEAN : Persist(s, ok)
    \/ \E s \in Slots : Finish(s)

Spec == InitHandler /\ [][Next]_vars

(***************************************************************************)
(* Claims about the handler (Spec)                                         *)
(***************************************************************************)
Done(r) == r.pc = "done"

InFlight(r) == r.pc \notin {"idle", "done"}

StepsOf(r) == { r.trace[i].step : i \in 1..Len(r.trace) }

CountOf(r, step) == Cardinality({ i \in 1..Len(r.trace) : r.trace[i].step = step })

\* the entries of the trace of r for one step
EntriesOf(r, step) == { r.trace[i] : i \in { j \in 1..Len(r.trace) : r.trace[j].step = step } }

\* r has been answered from the cache / after a full analysis
Hit(r) == Done(r) /\ r.resp.status = 200 /\ r.resp.cached = TRUE

Miss(r) == Done(r) /\ r.resp.status = 200 /\ r.resp.cached = FALSE

\* C4: in every window of every identifier the number of checks that return
\* allowed is min(checks made, R), hence at most R, however the requests of
\* the client interleave.
C4_QuotaPerWindow ==
    \A id \in DOMAIN gWin :
        /\ gWin[id].allowed <= MaxRequests
        /\ gWin[id].allowed = Min(gWin[id].calls, MaxRequests)

\* a request is denied while another request of the same window is still running
C4_Witness ==
    \E id \in DOMAIN gWin, s \in Slots, t \in Slots :
        /\ gWin[id].calls = MaxRequests + 1
        /\ gWin[id].allowed = MaxRequests
        /\ Done(req[s]) /\ req[s].resp.status = 429
        /\ InFlight(req[t])

\* the lookup of slot s happens in this step
Lookup(s) == req[s].pc = "json" /\ "lookup" \in StepsOf(req'[s])

\* the request that wrote the entry of key k has answered 200 with its report
Answered(k) == gServed[k].report # Null

\* the entries standing for the user name u, whatever its letter case
StandingFor(u) ==
    { k \in DOMAIN gServed : ToLowerCase(gServed[k].username) = ToLowerCase(u) }

\* C5: a request for a user name whose report (same name after lower-casing)
\* was cached by a request that has answered 200, the entry being neither
\* expired nor evicted, is answered from the cache: cached = true, the very
\* report the first request returned, and no GitHub call, no model call and
\* no save; the first request ran the fetch and generation cycle once.
C5_Idempotent ==
    /\ [][\A s \in Slots : Lookup(s) =>
            /\ \A k \in StandingFor(req'[s].username) :
                  (Expected(gLive, k, now) # Null /\ Answered(k)) =>
                     /\ Hit(req'[s])
                     /\ req'[s].resp.report = gServed[k].report
            /\ Hit(req'[s]) =>
                  /\ StepsOf(req'[s]) = {"check", "lookup"}
                  /\ db' = db
                  /\ KeysOf(cache') = KeysOf(cache)]_vars
    /\ [](\A s \in Slots : Miss(req[s]) =>
            /\ CountOf(req[s], "profile") = 1
            /\ CountOf(req[s], "repos") = 1
            /\ CountOf(req[s], "llm") = 1)

\* what the contract says about the sample profileUrl strings
ValidInput(b) ==
    /\ b.json
    /\ b.profileUrl \in { Str(<<"A", "l">>),
                         Str(<<" ", "https://", "github.com", "/", "a", "l", "/">>) }

C7_GenerationFatal ==
    /\ [](\A s \in Slots : Done(req[s]) =>
            \A e \in EntriesOf(req[s], "llm") :
                (e.reply.kind # "content" \/ ~e.reply.wellFormed) =>
                    /\ req[s].resp.status = 500
                    /\ CountOf(req[s], "llm") = 1
                    /\ "cacheSet" \notin StepsOf(req[s])
                    /\ "persist" \notin StepsOf(req[s]))
    /\ [][\A s \in Slots :
            /\ (req[s].pc = "llm" /\ req'[s].pc = "done") => cache' = cache /\ db' = db
            /\ (req[s].pc = "llm" /\ req'[s].pc = "db") =>
                  \E reply \in ModelReplies :
                      /\ reply.kind = "content" /\ reply.wellFormed
                      /\ req'[s].report = reply.value
                      /\ \A i \in 1..Len(cache') :
                            cache'[i] \notin RangeOf(cache) => cache'[i].data = reply.value]_vars
    /\ [][(\E i \in 1..Len(cache') : cache'[i] \notin RangeOf(cache))
            => \E s \in Slots : req[s].pc = "llm" /\ req'[s].pc = "db"]_vars

\* an unparseable reply has been answered 500 while the cache holds the
\* report of an earlier, successful generation
C7_Witness ==
    \E s \in Slots :
        /\ Done(req[s])
        /\ req[s].resp.status = 500
        /\ \E e \in EntriesOf(req[s], "llm") : e.reply.kind = "content" /\ ~e.reply.wellFormed
        /\ Len(cache) = 1

\* C8: a request whose save fails still answers 200 with the generated
\* report and cached = false; the report is in the cache when the save is
\* attempted, and a later request within the TTL is answered from the cache.
C8_PersistenceSoft ==
    /\ [](\A s \in Slots : Done(req[s]) =>
            \A e \in EntriesOf(req[s], "persist") :
                ~e.ok => /\ req[s].resp.status = 200
                         /\ req[s].resp.cached = FALSE
                         /\ \E g \in EntriesOf(req[s], "llm") :
                               req[s].resp.report = g.reply.value
                         /\ "cacheSet" \in StepsOf(req[s]))
    /\ [][\A s \in Slots :
            (req[s].pc = "llm" /\ req'[s].pc = "db") =>
                /\ req'[s].cacheKey \in KeysOf(cache')
                /\ EntryOf(cache', req'[s].cacheKey).data = req'[s].report
                /\ db' = db]_vars
    /\ [][\A s \in Slots : Lookup(s) =>
            \A k \in StandingFor(req'[s].username) :
                (Expected(gLive, k, now) # Null /\ Answered(k) /\ ~gServed[k].saved)
                    => Hit(req'[s]) /\ req'[s].resp.report = gServed[k].report]_vars

\* C9: no user data and no report is ever written to the database.
C9_NothingPersisted == db = {}

\* a report conforms to HIRING_REPORT_SCHEMA
Conforms(r) == r \in ObjectReports /\ r.shape = "conforms" /\ r.score \in 0..100

\* C10: every report that is cached, saved or sent to the caller conforms to
\* the report schema, scores within [0,100].
C10_ReportsConform ==
    /\ \A i \in 1..Len(cache) : Conforms(cache[i].data)
    /\ \A d \in db : Conforms(d.report)
    /\ \A s \in Slots : (Done(req[s]) /\ req[s].resp.status = 200) => Conforms(req[s].resp.report)

(***************************************************************************)
(* SpecDetect: detectWeb3 applied to a repository and its content          *)
(***************************************************************************)
MaxTopics == 2        \* topics of a repository

\* sequences over S of length at most n
SeqsUpTo(S, n) == UNION { [1..k -> S] : k \in 0..n }

\* [...new Set(s)]: first occurrences, in order
RECURSIVE Unique(_)
Unique(s) ==
    IF s = <<>> THEN <<>>
    ELSE LET rest == Unique(SubSeq(s, 1, Len(s) - 1))
         IN  IF s[Len(s)] \in RangeOf(rest) THEN rest ELSE Append(rest, s[Len(s)])

\* the members of web3Topics that the sample topics can match
Web3Topics == {"web3", "solidity", "hardhat", "ethereum", "defi"}

\* the members of web3Keywords that the sample README words can match
Web3Keywords == <<"ethereum", "defi", "token", "wallet">>

\* String.prototype.includes on a README given as its words
Includes(readme, keyword) == keyword \in RangeOf(readme)

\* a tier that calls two pieces of evidence high
ConfidenceLoose(n) == IF n >= 2 THEN "high" ELSE IF n >= 1 THEN "medium" ELSE "low"

\* the confidence tier of an evidence count
Confidence(n) == IF n >= 3 THEN "high" ELSE IF n >= 2 THEN "medium" ELSE "low"

\* detectWeb3
DetectWeb3(repo, content) ==
    LET matchedTopics == SelectSeq(repo.topics, LAMBDA t : Lower(t) \in Web3Topics)
        e1 == IF Len(matchedTopics) > 0 THEN <<[kind |-> "Topics", of |-> matchedTopics]>> ELSE <<>>
        d1 == IF Len(matchedTopics) > 0 THEN matchedTopics ELSE <<>>
        hasContent == content # Null
        e2 == IF hasContent /\ Len(content.web3Frameworks) > 0
              THEN <<[kind |-> "Frameworks", of |-> content.web3Frameworks]>> ELSE <<>>
        d2 == IF hasContent /\ Len(content.web3Frameworks) > 0
              THEN content.web3Frameworks ELSE <<>>
        sol == hasContent /\ content.hasSolidityContracts /\ repo.language = Str("Solidity")
        e3 == IF sol THEN <<[kind |-> "Solidity contracts detected"]>> ELSE <<>>
        d3 == IF sol THEN <<"solidity">> ELSE <<>>
        matchedKeywords ==
            IF hasContent /\ ~Falsy(content.readme)
            THEN SelectSeq(Web3Keywords, LAMBDA k : Includes(ToLowerCase(content.readme.v), k))
            ELSE <<>>
        e4 == IF Len(matchedKeywords) > 2
              THEN <<[kind |-> "README contains", of |-> SubSeq(matchedKeywords, 1, 3)]>> ELSE <<>>
        lang == repo.language = Str("Solidity")
        e5 == IF lang THEN <<[kind |-> "Primary language: Solidity"]>> ELSE <<>>
        d5 == IF lang THEN <<"solidity">> ELSE <<>>
        evidence == e1 \o e2 \o e3 \o e4 \o e5
    IN  [isWeb3 |-> Len(evidence) > 0,
         detectedStacks |-> Unique(d1 \o d2 \o d3 \o d5),
         confidence |-> Confidence(Len(evidence)),
         evidence |-> evidence]

\* repositories as detectWeb3 reads them
DetectRepos ==
    { [topics |-> t, language |-> l] :
        t \in SeqsUpTo({"Web3", "hardhat", "react"}, MaxTopics),
        l \in {Null, Str("Solidity"), Str("TypeScript")} }

\* content as fetchRepoContent returns it, or null when that fetch failed
DetectContents ==
    {Null} \cup
    { [web3Frameworks |-> f, hasSolidityContracts |-> h, readme |-> r] :
        f \in {<<>>, <<"hardhat">>, <<"ethers", "foundry">>},
        h \in BOOLEAN,
        r \in {Null, Str(<<>>), Str(<<"Ethereum", "DeFi", "wallet">>),
               Str(<<"a", "token", "wallet">>)} }

InitDetect ==
    /\ now = 0
    /\ cache = <<>>
    /\ limits = EmptyMap
    /\ lastOp \in { [op |-> "detectWeb3", repo |-> r, content |-> c, called |-> FALSE,
                     result |-> Null] : r \in DetectRepos, c \in DetectContents }
    /\ gLive = EmptyMap
    /\ gOrder = <<>>
    /\ gWin = EmptyMap
    /\ req = [s \in Slots |-> IdleReq]
    /\ db = {}
    /\ gServed = EmptyMap
    /\ envOk = TRUE

Detect ==
    /\ lastOp.op = "detectWeb3"
    /\ ~lastOp.called
    /\ lastOp' = [lastOp EXCEPT !.called = TRUE,
                                !.result = DetectWeb3(lastOp.repo, lastOp.content)]
    /\ UNCHANGED <<now, cache, limits, gLive, gOrder, gWin, req, db, gServed, envOk>>

NextDetect == Detect

SpecDetect == InitDetect /\ [][NextDetect]_vars

\* C11: isWeb3 is true exactly when there is evidence; the confidence is high
\* for three or more pieces of evidence, medium for two, low for one or none;
\* detectedStacks holds no token twice.
C11_DetectWeb3 ==
    (lastOp.op = "detectWeb3" /\ lastOp.called) =>
        LET r == lastOp.result
            n == Len(r.evidence)
        IN  /\ r.isWeb3 <=> n > 0
            /\ n >= 3 => r.confidence = "high"
            /\ n = 2 => r.confidence = "medium"
            /\ n <= 1 => r.confidence = "low"
            /\ Cardinality(RangeOf(r.detectedStacks)) = Len(r.detectedStacks)

\* two pieces of evidence that both name solidity give medium and one token
C11_Witness ==
    /\ lastOp.op = "detectWeb3" /\ lastOp.called
    /\ Len(lastOp.result.evidence) = 2
    /\ lastOp.result.confidence = "medium"
    /\ lastOp.result.detectedStacks = <<"solidity">>

(***************************************************************************)
(* SpecAggregate: the statistics of buildAnalysisPayload and the helpers   *)
(* calculateRecencyScore / calculateConsistencyScore, applied to a list of *)
(* repositories.  A date is given by its distance from the call in days    *)
(* (pushedAt) or as a day number (updatedAt).  Quotients are kept exact:   *)
(* an average is compared as sum against bound * count.                    *)
(***************************************************************************)
MaxList == 3          \* repositories handed to the aggregator

\* the value of 0 / 0
NaN == [t |-> "NaN", v |-> 0]

RECURSIVE SumSeq(_)
SumSeq(s) == IF s = <<>> THEN 0 ELSE s[1] + SumSeq(Tail(s))

\* Array.prototype.sort((a, b) => a - b) on numbers
RECURSIVE SortAsc(_)
SortAsc(s) ==
    IF s = <<>> THEN <<>>
    ELSE LET rest == SortAsc(Tail(s))
             lower == SelectSeq(rest, LAMBDA x : x <= s[1])
             higher == SelectSeq(rest, LAMBDA x : x > s[1])
         IN  lower \o <<s[1]>> \o higher

\* a date
Date(d) == [date |-> d]

\* statistics that divide without looking at the total
Web3StatsUnguarded(repos) ==
    LET count == Len(SelectSeq(repos, LAMBDA r : r.isWeb3))
        total == Len(repos)
    IN  [web3RepoCount |-> count, totalRepos |-> total,
         web3Ratio |-> [num |-> count, den |-> total]]

\* web3RepoCount, totalRepos and web3Ratio (as numerator and denominator)
Web3Stats(repos) ==
    LET count == Len(SelectSeq(repos, LAMBDA r : r.isWeb3))
        total == Len(repos)
    IN  [web3RepoCount |-> count, totalRepos |-> total,
         web3Ratio |-> IF total > 0 THEN [num |-> count, den |-> total]
                       ELSE [num |-> 0, den |-> 1]]

\* a step function with the buckets of calculateRecencyScore
RecencyStepLong(sum, n) ==
    IF sum < 30 * n THEN 100
    ELSE IF sum < 90 * n THEN 80
    ELSE IF sum < 180 * n THEN 60
    ELSE IF sum < 365 * n THEN 40
    ELSE IF sum < 730 * n THEN 20
    ELSE 10

\* the step function of the aggregator, on the average sum / n
RecencyStep(sum, n) ==
    IF sum < 30 * n THEN 100
    ELSE IF sum < 90 * n THEN 80
    ELSE IF sum < 180 * n THEN 60
    ELSE IF sum < 365 * n THEN 40
    ELSE 20

\* recencyScore of buildAnalysisPayload
AggregateRecency(repos) ==
    LET repoPushDates == SelectSeq([i \in 1..Len(repos) |-> repos[i].pushedAt], LAMBDA d : d # Null)
        days == [i \in 1..Len(repoPushDates) |-> repoPushDates[i].date]
    IN  IF Len(repoPushDates) > 0 THEN Num(RecencyStep(SumSeq(days), Len(days))) ELSE Num(0)

\* the successive gaps of the sorted update times
Gaps(updates) ==
    LET sorted == SortAsc(updates)
    IN  [i \in 1..(Len(sorted) - 1) |-> sorted[i + 1] - sorted[i]]

\* round(100 - cv * 50) floored at 0, cv = stdDev / avgGap of the gaps
CvScore(gaps) ==
    LET n == Len(gaps)
        sum == SumSeq(gaps)
        squares == SumSeq([i \in 1..Len(gaps) |-> gaps[i] * gaps[i]])
        spread == n * squares - sum * sum
        fits == { k \in 0..100 : 10000 * spread <= (201 - 2 * k) * (201 - 2 * k) * sum * sum }
    IN  IF sum = 0 THEN NaN
        ELSE IF fits = {} THEN Num(0)
        ELSE Num(CHOOSE k \in fits : \A j \in fits : j <= k)

\* consistencyScore of buildAnalysisPayload
AggregateConsistency(repos) ==
    IF Len(repos) > 1 THEN CvScore(Gaps([i \in 1..Len(repos) |-> repos[i].updatedAt])) ELSE Num(50)

\* the score calculateRecencyScore gives one repository
RepoRecency(pushedAt) ==
    IF pushedAt = Null THEN 10
    ELSE IF pushedAt.date < 30 THEN 100
    ELSE IF pushedAt.date < 90 THEN 80
    ELSE IF pushedAt.date < 180 THEN 60
    ELSE IF pushedAt.date < 365 THEN 40
    ELSE IF pushedAt.date < 730 THEN 20
    ELSE 10

\* Math.round of a non-negative quotient
RoundDiv(a, b) == (2 * a + b) \div (2 * b)

\* calculateRecencyScore
CalculateRecencyScore(repos) ==
    IF Len(repos) = 0 THEN Num(0)
    ELSE Num(RoundDiv(SumSeq([i \in 1..Len(repos) |-> RepoRecency(repos[i].pushedAt)]), Len(repos)))

\* calculateConsistencyScore
CalculateConsistencyScore(repos) ==
    IF Len(repos) = 0 THEN Num(0)
    ELSE IF Len(repos) < 2 THEN Num(50)
    ELSE CvScore(Gaps([i \in 1..Len(repos) |-> repos[i].updatedAt]))

\* sample repositories: days since the last push (null: never pushed), day
\* of the last update, and whether detectWeb3 found evidence
RepoSamples ==
    { [pushedAt |-> Date(15), updatedAt |-> 0, isWeb3 |-> TRUE],
      [pushedAt |-> Date(15), updatedAt |-> 0, isWeb3 |-> FALSE],
      [pushedAt |-> Date(45), updatedAt |-> 1, isWeb3 |-> TRUE],
      [pushedAt |-> Date(200), updatedAt |-> 3, isWeb3 |-> FALSE],
      [pushedAt |-> Date(385), updatedAt |-> 30, isWeb3 |-> FALSE],
      [pushedAt |-> Date(1000), updatedAt |-> 10, isWeb3 |-> TRUE],
      [pushedAt |-> Null, updatedAt |-> 3, isWeb3 |-> FALSE] }

InitAggregate ==
    /\ now = 0
    /\ cache = <<>>
    /\ limits = EmptyMap
    /\ lastOp \in { [op |-> "aggregate", repos |-> r, aggregate |-> Null, signals |-> Null] :
                     r \in SeqsUpTo(RepoSamples, MaxList) }
    /\ gLive = EmptyMap
    /\ gOrder = <<>>
    /\ gWin = EmptyMap
    /\ req = [s \in Slots |-> IdleReq]
    /\ db = {}
    /\ gServed = EmptyMap
    /\ envOk = TRUE

\* buildAnalysisPayload computes aggregateStats
BuildAnalysisPayload ==
    /\ lastOp.op = "aggregate"
    /\ lastOp.aggregate = Null
    /\ lastOp' = [lastOp EXCEPT !.aggregate =
                     [web3 |-> Web3Stats(lastOp.repos),
                      recencyScore |-> AggregateRecency(lastOp.repos),
                      consistencyScore |-> AggregateConsistency(lastOp.repos)]]
    /\ UNCHANGED <<now, cache, limits, gLive, gOrder, gWin, req, db, gServed, envOk>>

\* fetchGitHubSummary computes activitySignals
ActivitySignals ==
    /\ lastOp.op = "aggregate"
    /\ lastOp.signals = Null
    /\ lastOp' = [lastOp EXCEPT !.signals =
                     [recencyScore |-> CalculateRecencyScore(lastOp.repos),
                      consistencyScore |-> CalculateConsistencyScore(lastOp.repos)]]
    /\ UNCHANGED <<now, cache, limits, gLive, gOrder, gWin, req, db, gServed, envOk>>

NextAggregate == BuildAnalysisPayload \/ ActivitySignals

SpecAggregate == InitAggregate /\ [][NextAggregate]_vars

\* the aggregator / the helpers have run on the list
Aggregated == lastOp.op = "aggregate" /\ lastOp.aggregate # Null

Signalled == lastOp.op = "aggregate" /\ lastOp.signals # Null

\* C12: web3RepoCount is the number of repositories whose detection says
\* isWeb3, totalRepos the length of the list, web3Ratio their quotient: 0 for
\* the empty list, 1 when every repository is Web3, always within [0, 1].
C12_Web3Stats ==
    Aggregated =>
        LET repos == lastOp.repos
            st == lastOp.aggregate.web3
            web3 == { i \in 1..Len(repos) : repos[i].isWeb3 }
        IN  /\ st.web3RepoCount = Cardinality(web3)
            /\ st.totalRepos = Len(repos)
            /\ st.web3Ratio.den > 0
            /\ st.web3Ratio.num * st.totalRepos = st.web3RepoCount * st.web3Ratio.den
            /\ Len(repos) = 0 => st.web3Ratio.num = 0
            /\ (Len(repos) > 0 /\ Cardinality(web3) = Len(repos))
                  => st.web3Ratio.num = st.web3Ratio.den
            /\ 0 <= st.web3Ratio.num /\ st.web3Ratio.num <= st.web3Ratio.den

\* the statistics of a list of several repositories, some of them Web3
C12_Witness ==
    /\ Aggregated
    /\ lastOp.aggregate.web3.totalRepos >= 2
    /\ lastOp.aggregate.web3.web3RepoCount >= 1
    /\ lastOp.aggregate.web3.web3RepoCount < lastOp.aggregate.web3.totalRepos

\* the days since the last push of the repositories that have a push date
PushDays(repos) ==
    LET dated == SelectSeq(repos, LAMBDA r : r.pushedAt # Null)
    IN  [i \in 1..Len(dated) |-> dated[i].pushedAt.date]

\* the step function of the contract on the average of a non-empty list of days
StepOfAverage(days) ==
    LET total == SumSeq(days)
        n == Len(days)
    IN  CASE total < 30 * n -> 100
          [] total >= 30 * n /\ total < 90 * n -> 80
          [] total >= 90 * n /\ total < 180 * n -> 60
          [] total >= 180 * n /\ total < 365 * n -> 40
          [] OTHER -> 20

\* C13 as stated: for every list the recency score of the aggregator is a
\* value of the step function, that of the average days since the last push.
C13_RecencyOfEveryList ==
    Aggregated =>
        /\ lastOp.aggregate.recencyScore.v \in {100, 80, 60, 40, 20}
        /\ Len(PushDays(lastOp.repos)) > 0
              => lastOp.aggregate.recencyScore = Num(StepOfAverage(PushDays(lastOp.repos)))

\* C13, amended: for every list in which some repository has a push date the
\* recency score is the step function (<30: 100, <90: 80, <180: 60, <365: 40,
\* else 20) of the average days since the last push over the repositories
\* that have one; for a list in which none has, the empty list included, the
\* score is 0.
C13_RecencyStep ==
    Aggregated =>
        /\ Len(PushDays(lastOp.repos)) > 0
              => lastOp.aggregate.recencyScore = Num(StepOfAverage(PushDays(lastOp.repos)))
        /\ Len(PushDays(lastOp.repos)) = 0 => lastOp.aggregate.recencyScore = Num(0)
        /\ (Len(PushDays(lastOp.repos)) > 0 /\ SumSeq(PushDays(lastOp.repos)) = 15 * Len(PushDays(lastOp.repos)))
              => lastOp.aggregate.recencyScore = Num(100)
        /\ (Len(PushDays(lastOp.repos)) > 0 /\ SumSeq(PushDays(lastOp.repos)) = 200 * Len(PushDays(lastOp.repos)))
              => lastOp.aggregate.recencyScore = Num(40)
        /\ (Len(PushDays(lastOp.repos)) > 0 /\ SumSeq(PushDays(lastOp.repos)) = 1000 * Len(PushDays(lastOp.repos)))
              => lastOp.aggregate.recencyScore = Num(20)

\* an average of 200 days over the two repositories, of three, that have a push date
C13_Witness ==
    /\ Aggregated
    /\ Len(lastOp.repos) = 3
    /\ Len(PushDays(lastOp.repos)) = 2
    /\ SumSeq(PushDays(lastOp.repos)) = 400
    /\ lastOp.aggregate.recencyScore = Num(40)

\* C14: with fewer than 2 repositories the consistency score is exactly 50,
\* in the aggregator and in calculateConsistencyScore.
C14_ConsistencyDegenerate ==
    /\ (Aggregated /\ Len(lastOp.repos) < 2) => lastOp.aggregate.consistencyScore = Num(50)
    /\ (Signalled /\ Len(lastOp.repos) < 2) => lastOp.signals.consistencyScore = Num(50)

\* a score is an integer of [0, 100]
IsScore(x) == x.t = "number" /\ x.v \in 0..100

\* C15: the recency and consistency scores of the aggregator and of the
\* helpers are integers of [0, 100] for every list of repositories.
C15_ScoresInRange ==
    /\ Aggregated => /\ IsScore(lastOp.aggregate.recencyScore)
                     /\ IsScore(lastOp.aggregate.consistencyScore)
    /\ Signalled => /\ IsScore(lastOp.signals.recencyScore)
                    /\ IsScore(lastOp.signals.consistencyScore)

(***************************************************************************)
(* SpecRepos: fetchGitHubRepos applied to the answer of the list call and  *)
(* the answers of the per-repository language calls                        *)
(***************************************************************************)
MaxUpstream == 3      \* repositories in the answer of the list call

\* maxRepos: number = 30
DefaultMaxRepos == 30

\* a score that counts a star once
CompositeScoreFlat(repo) == repo.stargazersCount + (IF repo.fork THEN 0 ELSE 5)

\* stargazersCount * 2 + (fork ? 0 : 5)
CompositeScore(repo) == repo.stargazersCount * 2 + (IF repo.fork THEN 0 ELSE 5)

\* Array.prototype.sort with the comparator scoreB - scoreA (stable)
RECURSIVE SortByScore(_)
SortByScore(s) ==
    IF s = <<>> THEN <<>>
    ELSE LET rest == SortByScore(Tail(s))
             higher == SelectSeq(rest, LAMBDA x : CompositeScore(x) > CompositeScore(s[1]))
             others == SelectSeq(rest, LAMBDA x : CompositeScore(x) <= CompositeScore(s[1]))
         IN  higher \o <<s[1]>> \o others

\* Array.prototype.slice(0, n)
Slice(s, n) == SubSeq(s, 1, Min(n, Len(s)))

\* the language map of one repository: the answer, or {} when the call fails
LanguagesOf(answer) ==
    IF GithubFetch(answer.status).ok THEN answer.languages ELSE EmptyMap

\* fetchGitHubRepos after the list call has answered with data
FetchGitHubRepos(data, langs, maxRepos) ==
    LET repos == [i \in 1..Len(data) |->
                    [name |-> data[i].name,
                     stargazersCount |-> data[i].stargazers_count,
                     fork |-> data[i].fork,
                     languages |-> LanguagesOf(langs[data[i].name])]]
    IN  Slice(SortByScore(repos), maxRepos)

\* repositories as the list call describes them
UpstreamRepos ==
    { [name |-> "a", stargazers_count |-> 0, fork |-> FALSE],
      [name |-> "b", stargazers_count |-> 2, fork |-> TRUE],
      [name |-> "c", stargazers_count |-> 3, fork |-> TRUE],
      [name |-> "d", stargazers_count |-> 0, fork |-> FALSE] }

\* answers of the list call: each repository at most once
UpstreamLists ==
    { l \in SeqsUpTo(UpstreamRepos, MaxUpstream) :
        \A i, j \in 1..Len(l) : i # j => l[i] # l[j] }

\* answers of GET /repos/{full_name}/languages
LanguageAnswers ==
    { [status |-> 200, languages |-> [l \in {"TypeScript"} |-> 10]],
      [status |-> 404, languages |-> EmptyMap],
      [status |-> 0, languages |-> EmptyMap] }

InitRepos ==
    /\ now = 0
    /\ cache = <<>>
    /\ limits = EmptyMap
    /\ lastOp \in { [op |-> "fetchGitHubRepos", data |-> d, langs |-> l, maxRepos |-> m,
                     called |-> FALSE, result |-> <<>>] :
                     d \in UpstreamLists,
                     l \in [{ r.name : r \in UpstreamRepos } -> LanguageAnswers],
                     m \in {0, 1, 2, DefaultMaxRepos} }
    /\ gLive = EmptyMap
    /\ gOrder = <<>>
    /\ gWin = EmptyMap
    /\ req = [s \in Slots |-> IdleReq]
    /\ db = {}
    /\ gServed = EmptyMap
    /\ envOk = TRUE

ListRepos ==
    /\ lastOp.op = "fetchGitHubRepos"
    /\ ~lastOp.called
    /\ lastOp' = [lastOp EXCEPT !.called = TRUE,
                     !.result = FetchGitHubRepos(lastOp.data, lastOp.langs, lastOp.maxRepos)]
    /\ UNCHANGED <<now, cache, limits, gLive, gOrder, gWin, req, db, gServed, envOk>>

NextRepos == ListRepos

SpecRepos == InitRepos /\ [][NextRepos]_vars

\* C16: fetchRepos returns at most maxRepos repositories, in non-increasing
\* order of stars * 2 + (5 if not a fork); each of them is a repository of
\* the upstream answer, and none is returned twice.
C16_FetchRepos ==
    (lastOp.op = "fetchGitHubRepos" /\ lastOp.called) =>
        LET res == lastOp.result
            points(r) == 2 * r.stargazersCount + (IF r.fork THEN 0 ELSE 5)
        IN  /\ Len(res) <= lastOp.maxRepos
            /\ \A i, j \in 1..Len(res) : i < j => points(res[i]) >= points(res[j])
            /\ \A i \in 1..Len(res) :
                  \E k \in 1..Len(lastOp.data) :
                      /\ lastOp.data[k].name = res[i].name
                      /\ lastOp.data[k].stargazers_count = res[i].stargazersCount
                      /\ lastOp.data[k].fork = res[i].fork
            /\ \A i, j \in 1..Len(res) : i # j => res[i].name # res[j].name

\* three repositories come back in an order other than the upstream one, cut to two
C16_Witness ==
    /\ lastOp.op = "fetchGitHubRepos" /\ lastOp.called
    /\ Len(lastOp.data) = 3
    /\ Len(lastOp.result) = 2
    /\ lastOp.result[1].name = lastOp.data[3].name
    /\ lastOp.result[2].name = lastOp.data[1].name

\* C25: for every list of repositories the recency score of the aggregator
\* equals the recency score calculateRecencyScore returns as
\* activitySignals.recencyScore, a value of the step function <30: 100,
\* <90: 80, <180: 60, <365: 40, else 20.
C25_RecenciesAgree ==
    (Aggregated /\ Signalled) =>
        /\ lastOp.aggregate.recencyScore = lastOp.signals.recencyScore
        /\ Len(lastOp.repos) > 0 => lastOp.signals.recencyScore.v \in {100, 80, 60, 40, 20}

(***************************************************************************)
(* SpecTopics: the topic histogram of buildAnalysisPayload                 *)
(***************************************************************************)
MaxTopicRepos == 3    \* repositories in the list

\* the names a fresh object literal {} inherits, among the topics below
InheritedNames == {"constructor"}

\* Object.prototype.constructor, and what + makes of it
FunctionObject == [t |-> "function", v |-> <<"function Object() { [native code] }">>]

\* topicsBreakdown[topic] = (topicsBreakdown[topic] || 0) + 1
AddTopic(hist, topic) ==
    LET old == IF topic \in DOMAIN hist THEN hist[topic]
               ELSE IF topic \in InheritedNames THEN FunctionObject
               ELSE Null
        new == IF Falsy(old) THEN Num(1)
               ELSE IF old.t = "number" THEN Num(old.v + 1)
               ELSE Str(old.v \o <<"1">>)
    IN  [x \in DOMAIN hist \cup {topic} |-> IF x = topic THEN new ELSE hist[x]]

RECURSIVE AddTopics(_, _)
\* for (const topic of repo.topics)
AddTopics(hist, topics) ==
    IF topics = <<>> THEN hist ELSE AddTopics(AddTopic(hist, Head(topics)), Tail(topics))

RECURSIVE TopicsBreakdown(_, _)
\* the loop over repos, from the histogram so far; repo.topics is an array
\* (repo.topics || [] in fetchGitHubRepos), which is truthy even when empty
TopicsBreakdown(hist, repos) ==
    IF repos = <<>> THEN hist
    ELSE TopicsBreakdown(AddTopics(hist, Head(repos).topics), Tail(repos))

TopicNames == {"defi", "react", "constructor"}

\* topic lists as a repository carries them
TopicLists == SeqsUpTo(TopicNames, MaxTopics)

InitTopics ==
    /\ now = 0
    /\ cache = <<>>
    /\ limits = EmptyMap
    /\ lastOp \in { [op |-> "topicsBreakdown", repos |-> r, called |-> FALSE,
                     result |-> EmptyMap] :
                     r \in SeqsUpTo({ [topics |-> t] : t \in TopicLists }, MaxTopicRepos) }
    /\ gLive = EmptyMap
    /\ gOrder = <<>>
    /\ gWin = EmptyMap
    /\ req = [s \in Slots |-> IdleReq]
    /\ db = {}
    /\ gServed = EmptyMap
    /\ envOk = TRUE

CountTopics ==
    /\ lastOp.op = "topicsBreakdown"
    /\ ~lastOp.called
    /\ lastOp' = [lastOp EXCEPT !.called = TRUE,
                                !.result = TopicsBreakdown(EmptyMap, lastOp.repos)]
    /\ UNCHANGED <<now, cache, limits, gLive, gOrder, gWin, req, db, gServed, envOk>>

NextTopics == CountTopics

SpecTopics == InitTopics /\ [][NextTopics]_vars

\* C26: for every list of repositories and every topic t, topicsBreakdown[t]
\* is the number of repositories whose topic list contains t, a topic that
\* stands more than once in one list counted once for that repository (a
\* topic no repository carries has no entry).
C26_TopicHistogram ==
    (lastOp.op = "topicsBreakdown" /\ lastOp.called) =>
        \A t \in TopicNames :
            LET carriers == { i \in 1..Len(lastOp.repos) : t \in RangeOf(lastOp.repos[i].topics) }
            IN  IF carriers = {} THEN t \notin DOMAIN lastOp.result
                ELSE /\ t \in DOMAIN lastOp.result
                     /\ lastOp.result[t] = Num(Cardinality(carriers))

(***************************************************************************)
(* SpecCollector: fetchRepoContent applied to the answers of the contents  *)
(* endpoint, one answer per path, and fetchGitHubRepos applied to answers  *)
(* of the language calls                                                   *)
(***************************************************************************)
MaxSpecial == 2       \* paths whose answer differs from the answer of the rest

ReadmeNames == <<"README.md", "README.MD", "readme.md", "README">>

TestPaths == <<"test", "tests", "__tests__", "spec">>

CIPaths == <<".github/workflows", ".gitlab-ci.yml", ".travis.yml", ".circleci">>

LintPaths == <<".eslintrc.js", ".eslintrc.json", ".prettierrc", "biome.json">>

SolidityPaths == <<"contracts", "src">>

Web3Deps ==
    <<"hardhat", "ethers", "web3", "wagmi", "viem", "@openzeppelin/contracts",
      "@thegraph/graph-cli", "@solana/web3.js", "@project-serum/anchor",
      "near-api-js", "@polkadot/api", "truffle">>

ConfigFiles ==
    <<[name |-> "hardhat.config.js", framework |-> "hardhat"],
      [name |-> "hardhat.config.ts", framework |-> "hardhat"],
      [name |-> "foundry.toml", framework |-> "foundry"],
      [name |-> "truffle-config.js", framework |-> "truffle"],
      [name |-> "brownie-config.yaml", framework |-> "brownie"],
      [name |-> "Anchor.toml", framework |-> "anchor"]>>

\* every path fetchRepoContent asks the contents endpoint for
ContentPaths ==
    RangeOf(ReadmeNames) \cup {"package.json"} \cup RangeOf(TestPaths)
    \cup RangeOf(CIPaths) \cup RangeOf(LintPaths) \cup RangeOf(SolidityPaths)
    \cup { ConfigFiles[i].name : i \in 1..Len(ConfigFiles) }

\* Buffer.from(text).toString('base64') and back
ToBase64(text) == [base64 |-> text]

FromBase64(c) == c.base64

\* file texts, as their tokens
ReadmeText == <<"a", "wallet">>

PackageText == <<"{", "devDependencies", "eslint", "hardhat", "dependencies", "ethers", "}">>

BarePackageText == <<"{", "}">>

TruncatedText == <<"{", "dependencies", "hardhat">>

SectionKeys == {"dependencies", "devDependencies"}

\* the names listed under key in a package.json text
Section(t, key) ==
    IF key \notin RangeOf(t) THEN {}
    ELSE LET i == CHOOSE k \in 1..Len(t) : t[k] = key
         IN  { t[j] : j \in { k \in (i + 1)..(Len(t) - 1) :
                                \A m \in (i + 1)..k : t[m] \notin SectionKeys } }

\* JSON.parse of a package.json text: the value, or the SyntaxError thrown
ParsePackageJson(t) ==
    IF Len(t) >= 2 /\ t[1] = "{" /\ t[Len(t)] = "}"
    THEN [ok |-> TRUE,
          value |-> [dependencies |-> Section(t, "dependencies"),
                     devDependencies |-> Section(t, "devDependencies")]]
    ELSE [ok |-> FALSE]

\* the answer of GET /repos/{full_name}/contents/{path}: a status (0: the
\* fetch rejects) and, for a file, its encoding and content
Failure(status) == [status |-> status, encoding |-> "none", content |-> Null]

Directory == [status |-> 200, encoding |-> "none", content |-> Null]

File(text) == [status |-> 200, encoding |-> "base64", content |-> ToBase64(Str(text))]

\* fetchFileContent: the decoded text, or null
FetchFileContent(a) ==
    IF ~GithubFetch(a.status).ok THEN Null
    ELSE IF a.content # Null /\ a.content # ToBase64(Str(<<>>)) /\ a.encoding = "base64"
    THEN FromBase64(a.content)
    ELSE Null

\* a probe that takes every answer but 404 for "the path is there"
CheckPathExistsUnless404(a) == a.status # 404

\* checkPathExists
CheckPathExists(a) == GithubFetch(a.status).ok

\* a || chain of checkPathExists over paths
AnyPath(up, paths) == \E i \in 1..Len(paths) : CheckPathExists(up[paths[i]])

\* the README loop: the first name that yields a text, else null
ReadmeOf(up) ==
    LET found == { i \in 1..Len(ReadmeNames) :
                     ~Falsy(FetchFileContent(up[ReadmeNames[i]])) }
    IN  IF found = {} THEN Null
        ELSE FetchFileContent(up[ReadmeNames[CHOOSE i \in found : \A j \in found : i <= j]])

\* package.json, parsed, or null
PackageJsonOf(up) ==
    LET text == FetchFileContent(up["package.json"])
    IN  IF Falsy(text) THEN Null
        ELSE IF ParsePackageJson(text.v).ok THEN ParsePackageJson(text.v).value
        ELSE Null

RECURSIVE AddConfigFrameworks(_, _, _)
\* the loop over configFiles from index k on
AddConfigFrameworks(frameworks, up, k) ==
    IF k > Len(ConfigFiles) THEN frameworks
    ELSE AddConfigFrameworks(
             IF CheckPathExists(up[ConfigFiles[k].name])
                /\ ConfigFiles[k].framework \notin RangeOf(frameworks)
             THEN Append(frameworks, ConfigFiles[k].framework)
             ELSE frameworks,
             up, k + 1)

\* fetchRepoContent, up giving the answer for each path
FetchRepoContent(up) ==
    LET packageJson == PackageJsonOf(up)
        allDeps == IF packageJson = Null THEN {}
                   ELSE packageJson.dependencies \cup packageJson.devDependencies
        fromDeps == IF packageJson = Null THEN <<>>
                    ELSE SelectSeq(Web3Deps, LAMBDA d : d \in allDeps)
    IN  [readme |-> ReadmeOf(up),
         packageJson |-> packageJson,
         hasTests |-> AnyPath(up, TestPaths),
         hasCI |-> AnyPath(up, CIPaths),
         hasLintConfig |->
             \/ AnyPath(up, LintPaths)
             \/ packageJson # Null /\ "eslint" \in packageJson.devDependencies
             \/ packageJson # Null /\ "prettier" \in packageJson.devDependencies,
         hasSolidityContracts |-> AnyPath(up, SolidityPaths),
         web3Frameworks |-> AddConfigFrameworks(fromDeps, up, 1)]

\* answers of the contents endpoint
ContentAnswers ==
    { Failure(404), Failure(403), Failure(500), Failure(0), Directory,
      File(ReadmeText), File(PackageText), File(TruncatedText) }

\* the answers for all paths: one answer for most, another for up to MaxSpecial
ContentUpstreams ==
    { [p \in ContentPaths |-> IF p \in DOMAIN special THEN special[p] ELSE rest] :
        rest \in {Failure(404), Failure(403), Directory},
        special \in UNION { [P -> ContentAnswers \cup {File(<<>>), File(BarePackageText)}] :
                              P \in { Q \in SUBSET {"README.md", "README", "package.json",
                                                     "tests", ".prettierrc", "src",
                                                     "hardhat.config.ts", "foundry.toml"} :
                                        Cardinality(Q) <= MaxSpecial } } }

InitCollector ==
    /\ now = 0
    /\ cache = <<>>
    /\ limits = EmptyMap
    /\ lastOp \in
          { [op |-> "fetchRepoContent", up |-> u, called |-> FALSE, result |-> Null] :
              u \in ContentUpstreams }
          \cup
          { [op |-> "fetchGitHubRepos", data |-> d, langs |-> l,
             maxRepos |-> DefaultMaxRepos, called |-> FALSE, result |-> <<>>] :
              d \in UpstreamLists,
              l \in [{ r.name : r \in UpstreamRepos } -> LanguageAnswers] }
    /\ gLive = EmptyMap
    /\ gOrder = <<>>
    /\ gWin = EmptyMap
    /\ req = [s \in Slots |-> IdleReq]
    /\ db = {}
    /\ gServed = EmptyMap
    /\ envOk = TRUE

\* fetchGitHubSummary: try { repoContents.set(repo.name, await fetchRepoContent(repo)) }
CollectContent ==
    /\ lastOp.op = "fetchRepoContent"
    /\ ~lastOp.called
    /\ lastOp' = [lastOp EXCEPT !.called = TRUE, !.result = FetchRepoContent(lastOp.up)]
    /\ UNCHANGED <<now, cache, limits, gLive, gOrder, gWin, req, db, gServed, envOk>>

NextCollector == CollectContent \/ ListRepos

SpecCollector == InitCollector /\ [][NextCollector]_vars

\* the answers up with every failure turned into "not found"
Absent(up) == [p \in DOMAIN up |-> IF up[p].status = 200 THEN up[p] ELSE Failure(404)]

\* C20: whatever a language call, a README or manifest fetch or a path probe
\* fails with (404, 403, 5xx, no answer), and when the manifest is no JSON,
\* the collector goes on: every listed repository stays in the list, with
\* an empty language map where its language call failed, and
\* fetchRepoContent returns a content record, the very one it returns when
\* each failed fetch or probe answers "not found" and an unparsable
\* manifest is missing; a signal is set only by a path that answered.
C20_ProbeFailuresAbsorbed ==
    /\ (lastOp.op = "fetchRepoContent" /\ lastOp.called) =>
          LET up == lastOp.up
              res == lastOp.result
              present(paths) == \E i \in 1..Len(paths) : up[paths[i]].status = 200
              manifest == up["package.json"]
              unparsable == /\ manifest.encoding = "base64"
                            /\ manifest.content # ToBase64(Str(<<>>))
                            /\ ~ParsePackageJson(FromBase64(manifest.content).v).ok
          IN  /\ res # Null
              /\ res = FetchRepoContent(Absent(up))
              /\ unparsable =>
                    /\ res.packageJson = Null
                    /\ res = FetchRepoContent([up EXCEPT !["package.json"] = Failure(404)])
              /\ manifest.status # 200 => res.packageJson = Null
              /\ res.hasTests = present(TestPaths)
              /\ res.hasCI = present(CIPaths)
              /\ res.hasSolidityContracts = present(SolidityPaths)
              /\ res.hasLintConfig =>
                    present(LintPaths) \/ (manifest.status = 200 /\ ~unparsable)
              /\ res.readme # Null =>
                    \E i \in 1..Len(ReadmeNames) :
                        /\ up[ReadmeNames[i]].status = 200
                        /\ up[ReadmeNames[i]].content = ToBase64(res.readme)
              /\ \A f \in RangeOf(res.web3Frameworks) :
                    \/ manifest.status = 200 /\ ~unparsable
                    \/ \E i \in 1..Len(ConfigFiles) :
                          ConfigFiles[i].framework = f /\ up[ConfigFiles[i].name].status = 200
    /\ (lastOp.op = "fetchGitHubRepos" /\ lastOp.called) =>
          /\ Len(lastOp.result) = Len(lastOp.data)
          /\ \A k \in 1..Len(lastOp.data) :
                \E i \in 1..Len(lastOp.result) :
                    /\ lastOp.result[i].name = lastOp.data[k].name
                    /\ lastOp.result[i].languages =
                          IF lastOp.langs[lastOp.data[k].name].status = 200
                          THEN lastOp.langs[lastOp.data[k].name].languages
                          ELSE EmptyMap

\* most probes are refused with 403 and the manifest is cut short, yet the
\* content comes back with the one test directory that answered
C20_Witness ==
    /\ lastOp.op = "fetchRepoContent" /\ lastOp.called
    /\ lastOp.up["test"].status = 403
    /\ lastOp.up["tests"].status = 200
    /\ lastOp.up["package.json"] = File(TruncatedText)
    /\ lastOp.result.hasTests
    /\ ~lastOp.result.hasCI
    /\ lastOp.result.packageJson = Null

(***************************************************************************)
(* SpecSummary: which repositories of the list fetchGitHubRepos returned   *)
(* get their content fetched, and what the handler hands to the detector   *)
(* and the aggregator                                                      *)
(***************************************************************************)
MaxListed == 10       \* repositories in the list fetchGitHubRepos returned

\* a selection that cuts the list before it drops forks and archived ones
TopReposSliceFirst(repos) ==
    SelectSeq(Slice(repos, TopLimit), LAMBDA r : ~r.fork /\ ~r.archived)

\* repos.filter((r) => !r.fork && !r.archived).slice(0, 8)
TopRepos(repos) ==
    Slice(SelectSeq(repos, LAMBDA r : ~r.fork /\ ~r.archived), TopLimit)

\* fetchGitHubSummary after the list has arrived: the repositories
\* fetchRepoContent is called for, in order, and the Map repoContents;
\* up[name] gives the answers of the contents endpoint for a repository
FetchGitHubSummary(repos, up) ==
    LET top == TopRepos(repos)
    IN  [repos |-> repos,
         fetched |-> [i \in 1..Len(top) |-> top[i].name],
         repoContents |-> [n \in { top[i].name : i \in 1..Len(top) } |->
                              FetchRepoContent(up[n])]]

\* the handler: repo, content (repoContents.get(repo.name) || null) and
\* web3Detection for every repository of the summary
AnalysisRepos(summary) ==
    [i \in 1..Len(summary.repos) |->
        LET repo == summary.repos[i]
            content == IF repo.name \in DOMAIN summary.repoContents
                       THEN summary.repoContents[repo.name] ELSE Null
        IN  [repo |-> repo, content |-> content,
             web3Detection |-> DetectWeb3(repo, content)]]

\* a repository of the list: original, fork, or archived
ListedKinds ==
    { [fork |-> FALSE, archived |-> FALSE], [fork |-> TRUE, archived |-> FALSE],
      [fork |-> FALSE, archived |-> TRUE] }

\* lists of repositories with distinct names
ListedRepos ==
    { [i \in 1..Len(k) |->
          [name |-> i, fork |-> k[i].fork, archived |-> k[i].archived,
           topics |-> <<"Web3">>, language |-> Str("Solidity")]] :
        k \in SeqsUpTo(ListedKinds, MaxListed) }

\* a repository tree in which every path probed is a directory
AllDirectories == [name \in 1..MaxListed |-> [p \in ContentPaths |-> Directory]]

InitSummary ==
    /\ now = 0
    /\ cache = <<>>
    /\ limits = EmptyMap
    /\ lastOp \in { [op |-> "fetchGitHubSummary", repos |-> r, called |-> FALSE,
                     fetched |-> <<>>, payload |-> <<>>, stats |-> Null] :
                     r \in ListedRepos }
    /\ gLive = EmptyMap
    /\ gOrder = <<>>
    /\ gWin = EmptyMap
    /\ req = [s \in Slots |-> IdleReq]
    /\ db = {}
    /\ gServed = EmptyMap
    /\ envOk = TRUE

\* fetchGitHubSummary, then the handler's payload and buildAnalysisPayload
Summarise ==
    /\ lastOp.op = "fetchGitHubSummary"
    /\ ~lastOp.called
    /\ LET summary == FetchGitHubSummary(lastOp.repos, AllDirectories)
           payload == AnalysisRepos(summary)
       IN  lastOp' = [lastOp EXCEPT
                         !.called = TRUE,
                         !.fetched = summary.fetched,
                         !.payload = payload,
                         !.stats = Web3Stats([i \in 1..Len(payload) |->
                                       [isWeb3 |-> payload[i].web3Detection.isWeb3]])]
    /\ UNCHANGED <<now, cache, limits, gLive, gOrder, gWin, req, db, gServed, envOk>>

NextSummary == Summarise

SpecSummary == InitSummary /\ [][NextSummary]_vars

\* the positions of the repositories that are neither fork nor archived
Eligible(repos) == { i \in 1..Len(repos) : ~repos[i].fork /\ ~repos[i].archived }

\* the first eight of them
Chosen(repos) ==
    { i \in Eligible(repos) : Cardinality({ j \in Eligible(repos) : j <= i }) <= 8 }

\* C21: fetchRepoContent is invoked for at most 8 repositories, none a fork
\* or archived: the first 8 such repositories, in the order of the list;
\* every other repository has content null in the payload, and every
\* repository of the list is in the payload with its detection and counted
\* by the aggregator.
C21_BoundedContent ==
    (lastOp.op = "fetchGitHubSummary" /\ lastOp.called) =>
        LET repos == lastOp.repos
            chosen == Chosen(repos)
        IN  /\ Len(lastOp.fetched) <= 8
            /\ Len(lastOp.fetched) = Cardinality(chosen)
            /\ \A i \in chosen :
                  lastOp.fetched[Cardinality({ j \in chosen : j <= i })] = repos[i].name
            /\ Len(lastOp.payload) = Len(repos)
            /\ \A i \in 1..Len(repos) :
                  /\ lastOp.payload[i].repo = repos[i]
                  /\ (lastOp.payload[i].content = Null) <=> (i \notin chosen)
                  /\ lastOp.payload[i].web3Detection.isWeb3 \in BOOLEAN
                  /\ lastOp.payload[i].web3Detection =
                        DetectWeb3(repos[i], lastOp.payload[i].content)
            /\ lastOp.stats.totalRepos = Len(repos)

\* nine repositories qualify and a fork stands before the ninth: the ninth
\* and the fork have no content and are detected as Web3 all the same
C21_Witness ==
    /\ lastOp.op = "fetchGitHubSummary" /\ lastOp.called
    /\ Cardinality(Eligible(lastOp.repos)) = 9
    /\ Len(lastOp.repos) = 10
    /\ lastOp.repos[3].fork
    /\ Len(lastOp.fetched) = 8
    /\ lastOp.payload[10].content = Null
    /\ lastOp.payload[10].web3Detection.isWeb3
    /\ lastOp.payload[3].content = Null
    /\ lastOp.payload[9].content # Null
    /\ lastOp.stats.web3RepoCount = 10

(***************************************************************************)
(* SpecClients: the keys the handler derives, applied to the limiter and   *)
(* the cache: getClientIdentifier and rateLimiter.check for the headers of *)
(* a request, the cache key and reportCache.get / set for a user name      *)
(***************************************************************************)
\* headers of requests: an address in two spellings, alone or first in a
\* forwarded list
ClientHeaders ==
    { [NoHeaders EXCEPT !.realIp = Str(<<"fe80::", "A">>)],
      [NoHeaders EXCEPT !.cfConnecting = Str(<<"fe80::", "a">>)],
      [NoHeaders EXCEPT !.forwarded = Str(<<" ", "fe80::", "a", ",", "ip9">>)] }

\* the request carries none of the three address headers
Anonymous(h) == Falsy(h.forwarded) /\ Falsy(h.realIp) /\ Falsy(h.cfConnecting)

\* a request arrives: getClientIdentifier, rateLimiter.check
Arrive(h) ==
    LET id == GetClientIdentifier(h, now)
        chk == LimiterCheck(limits, id, now)
    IN  /\ CanCheck(gWin, id, now)
        /\ limits' = chk.limits
        /\ gWin' = GhostCheck(gWin, id, now, chk.result.allowed)
        /\ lastOp' = [op |-> "arrive", headers |-> h, id |-> id, result |-> chk.result]
        /\ UNCHANGED <<now, cache, gLive, gOrder, req, db, gServed, envOk>>

\* the handler reads the cache for a user name
ReadFor(username) ==
    LET key == CacheKeyOf(username)
    IN  /\ cache' = CacheGet(cache, key, now).cache
        /\ lastOp' = [op |-> "read", username |-> username, key |-> key,
                      result |-> CacheGet(cache, key, now).result]
        /\ gOrder' = GhostOrderGet(gLive, gOrder, key, now)
        /\ UNCHANGED <<now, limits, gLive, gWin, req, db, gServed, envOk>>

\* the handler writes the report of a user name
WriteFor(username, report) ==
    LET key == CacheKeyOf(username)
    IN  /\ cache' = CacheSet(cache, key, report, now)
        /\ lastOp' = [op |-> "write", username |-> username, key |-> key, value |-> report]
        /\ gOrder' = GhostOrderSet(gOrder, key)
        /\ gLive' = GhostLiveSet(gLive, gOrder, key, report, now)
        /\ UNCHANGED <<now, limits, gWin, req, db, gServed, envOk>>

NextClients ==
    \/ Tick
    \/ LCleanup
    \/ \E h \in ClientHeaders : Arrive(h)
    \/ \E u \in {<<"A", "l">>, <<"a", "l">>} : ReadFor(u)
    \/ \E u \in {<<"A", "l">>, <<"a", "l">>} : WriteFor(u, ReportA)

SpecClients == Init /\ [][NextClients]_vars

\* C27: user names that differ only in letter case read and write one
\* cache entry, and client identifiers that differ only in letter case
\* share one rate-limit window: neither the cache nor the limiter ever
\* holds two keys that are equal up to letter case, a read returns what the
\* last write under any spelling of the name left, and a request is counted
\* in the window of the lower-cased identifier.
C27_KeysLowerCased ==
    /\ \A i, j \in 1..Len(cache) :
          ToLowerCase(cache[i].key) = ToLowerCase(cache[j].key) => i = j
    /\ lastOp.op = "read" =>
          lastOp.result = Expected(gLive, <<"report:">> \o ToLowerCase(lastOp.username), now)
    /\ \A id1 \in DOMAIN limits, id2 \in DOMAIN limits :
          (Len(id1) = Len(id2) /\ \A k \in 1..Len(id1) : Lower(id1[k]) = Lower(id2[k]))
              => id1 = id2

(***************************************************************************)
(* SpecAnonymous: requests that carry no client address, next to a client  *)
(* that carries one.                                                       *)
(***************************************************************************)
AnonymousHeaders ==
    { NoHeaders,
      [NoHeaders EXCEPT !.realIp = Str(<<"ip1">>)] }

NextAnonymous ==
    \/ Tick
    \/ LCleanup
    \/ \E h \in AnonymousHeaders : Arrive(h)

SpecAnonymous == Init /\ [][NextAnonymous]_vars

\* the identifier of a request without address headers that arrives at t
AgentAt(h, t) ==
    (IF h.userAgent = Null \/ h.userAgent.v = <<>> THEN <<"unknown">> ELSE h.userAgent.v)
        \o <<"-", NumberToString(t)>>

\* the step is an arrival
ArriveStep == lastOp'.op = "arrive" /\ gWin' # gWin

\* the window that opens at t
FreshWindow(t) == [count |-> 1, resetAt |-> t + WindowUnits]

RECURSIVE Stages(_)
\* the steps of a trace in order, a run of one step counted once
Stages(t) ==
    IF Len(t) = 0 THEN <<>>
    ELSE IF Len(t) > 1 /\ t[1].step = t[2].step THEN Stages(Tail(t))
    ELSE <<t[1].step>> \o Stages(Tail(t))

PipelineStages ==
    <<"check", "lookup", "profile", "repos", "languages", "content",
      "detect", "aggregate", "llm", "cacheSet", "persist">>

\* the awaits of one request follow each other in the order of the handler
PcOrder ==
    {<<"idle", "json">>, <<"json", "profile">>, <<"profile", "repos">>,
     <<"repos", "lang">>, <<"repos", "llm">>, <<"lang", "content">>,
     <<"lang", "llm">>, <<"content", "llm">>, <<"llm", "db">>, <<"db", "done">>}

IsPrefix(a, b) == Len(a) <= Len(b) /\ SubSeq(b, 1, Len(a)) = a

CachedUnder(c, k) == { i \in 1..Len(c) : c[i].key = k }

\* C18: nothing joins a request to one already running for the same user
\* name: a request that missed runs its own model call and answers
\* cached=false whatever the others do; every cache write leaves exactly one
\* entry under its key, holding the report of the writer, so that of two
\* requests that both wrote the one that wrote last has its report cached.
\* The interleaving itself is C18_Witness.
C18_NoDeduplication ==
    /\ [](\A k \in KeysOf(cache) : Cardinality(CachedUnder(cache, k)) = 1)
    /\ [](\A s \in Slots :
            Done(req[s]) /\ req[s].resp.status = 200 /\ "llm" \in StepsOf(req[s]) =>
               /\ req[s].resp.cached = FALSE
               /\ CountOf(req[s], "llm") = 1 /\ CountOf(req[s], "cacheSet") = 1
               /\ \A e \in EntriesOf(req[s], "lookup") : ~e.hit)
    /\ [][\A s \in Slots :
             req[s].pc = "llm" /\ req'[s].pc = "db" =>
                /\ Cardinality(CachedUnder(cache', req[s].cacheKey)) = 1
                /\ EntryOf(cache', req[s].cacheKey).data = req'[s].report
                /\ \A t \in Slots \ {s} : req'[t] = req[t]]_vars

\* only two requests have ever been received, no time has passed, both were
\* for one user name, both missed and both saved a record; the one that
\* answers last wrote the cache first, and the cache holds the other's report
C18_Witness ==
    \E s \in Slots, r1 \in db, r2 \in db :
        /\ now = 0
        /\ \A id \in DOMAIN gWin : gWin[id].calls <= 2
        /\ \A id \in DOMAIN gWin, id2 \in DOMAIN gWin : id = id2
        /\ Miss(req[s])
        /\ req[s].resp.report \in ObjectReports
        /\ r1.username = ToLowerCase(req[s].username) /\ r1.report = req[s].report
        /\ r2.username = r1.username /\ r2.report \in ObjectReports \ {r1.report}
        /\ Cardinality(db) = 2
        /\ KeysOf(cache) = {req[s].cacheKey}
        /\ Len(cache) = 1
        /\ cache[1].data = r2.report

(***************************************************************************)
(* Claims about the requests that end early (Spec)                         *)
(***************************************************************************)
ShortCircuit == {429, 400, 404, 503}

\* C19: a request answered 429, 400, 404 or 503 has made no model call, no
\* cache write and no persistence write; answered 429 or 400 it has made no
\* GitHub call either, and answered 429 it has not read the cache.  The step
\* that sends such a response changes neither the cache nor the persistence
\* store, and a 429 is sent by the step that made the limiter check, while
\* whatever the cache holds stays where it is.
C19_ShortCircuit ==
    /\ [](\A s \in Slots :
            Done(req[s]) /\ req[s].resp.status \in ShortCircuit =>
               /\ StepsOf(req[s]) \cap {"llm", "cacheSet", "persist",
                                        "detect", "aggregate"} = {}
               /\ req[s].resp.status \in {429, 400} =>
                     StepsOf(req[s]) \cap {"lookup", "profile", "repos",
                                           "languages", "content"} = {}
               /\ req[s].resp.status = 429 => StepsOf(req[s]) = {"check"}
               /\ req[s].resp.report = Null /\ req[s].report = Null)
    /\ [][\A s \in Slots :
             ~Done(req[s]) /\ Done(req'[s]) /\ req'[s].resp.status \in ShortCircuit =>
                /\ cache' = cache /\ db' = db
                /\ req'[s].resp.status = 429 => req[s].pc = "idle"
                /\ req'[s].resp.status = 400 => req[s].pc = "json"
                /\ req'[s].resp.status \in {404, 503} => req[s].pc \in {"profile", "repos"}]_vars

\* a client over its quota is answered 429 while the cache holds a report
\* that has not expired
C19_Witness ==
    \E s \in Slots :
        /\ Done(req[s]) /\ req[s].resp.status = 429
        /\ Len(cache) > 0
        /\ \A i \in 1..Len(cache) : now <= cache[i].expiresAt /\ ~Falsy(cache[i].data)

(***************************************************************************)
(* Claims about the charge of the quota (Spec)                             *)
(***************************************************************************)
\* the identifiers the requests of Spec come with
HandlerClients == { GetClientIdentifier(h, 0) : h \in HeaderSets }

\* C28: with a valid environment every request makes exactly one limiter
\* check, as its first step, before the body is read and before the cache
\* is looked up; a request answered 400 or served from the cache has been
\* allowed by that check and so has used one unit of its client's quota;
\* the arrival of a request is one check of the limiter and nothing else,
\* and when the client has used R units in the running window the request
\* is answered 429 on arrival, no body read.
C28_QuotaChargedFirst ==
    /\ [](\A s \in Slots :
            (envOk /\ req[s].pc # "idle") =>
               /\ Len(req[s].trace) >= 1
               /\ req[s].trace[1].step = "check"
               /\ CountOf(req[s], "check") = 1
               /\ (Done(req[s]) /\ req[s].resp.status = 400) => req[s].trace[1].allowed
               /\ Hit(req[s]) => req[s].trace[1].allowed
               /\ req[s].trace[1].allowed <=> ~(Done(req[s]) /\ req[s].resp.status = 429))
    /\ [][\A s \in Slots :
             (envOk /\ req[s].pc = "idle" /\ req'[s].pc # "idle") =>
                \E id \in HandlerClients :
                    /\ limits' = LimiterCheck(limits, id, now).limits
                    /\ cache' = cache
                    /\ gWin'[id].calls = IF GhostOpens(gWin, id, now) THEN 1
                                         ELSE gWin[id].calls + 1
                    /\ gWin'[id].allowed =
                          IF GhostOpens(gWin, id, now) THEN 1
                          ELSE Min(gWin[id].allowed + 1, MaxRequests)
                    /\ (~GhostOpens(gWin, id, now) /\ gWin[id].allowed = MaxRequests)
                          => /\ Done(req'[s]) /\ req'[s].resp.status = 429
                             /\ StepsOf(req'[s]) = {"check"}]_vars

\* a request with an invalid body is answered 400 and has used the last
\* unit of the window; nothing was ever analysed
C28_Witness ==
    \E s \in Slots, id \in DOMAIN limits :
        /\ Done(req[s]) /\ req[s].resp.status = 400
        /\ limits[id].count = MaxRequests
        /\ now <= limits[id].resetAt
        /\ \A t \in Slots \ {s} : req[t].pc = "idle"
        /\ cache = <<>> /\ db = {}

(***************************************************************************)
(* SpecLive: the handler with every external call answering in the end.    *)
(* The event loop runs the continuation of every await whose promise has   *)
(* settled, and releases every response that has been sent.                *)
(***************************************************************************)
\* the next step of the request in slot s, whatever the outside answers
Continue(s) ==
    \/ \E b \in Bodies : ReadBody(s, b)
    \/ \E status \in UpstreamStatuses : FetchProfile(s, status)
    \/ \E status \in UpstreamStatuses, n \in 0..MaxRepos : FetchRepos(s, status, n)
    \/ \E status \in UpstreamStatuses, m \in 0..MaxRepos : FetchLanguages(s, status, m)
    \/ \E ok \in BOOLEAN : FetchContent(s, ok)
    \/ \E reply \in ModelReplies : Generate(s, reply)
    \/ \E ok \in BOOLEAN : Persist(s, ok)

\* No step of the handler waits for the clock (the code sets no timer and no
\* timeout on a call), so the requests are followed to their responses at
\* one reading of the clock.
NextLive ==
    \/ \E s \in Slots, h \in HeaderSets : Receive(s, h)
    \/ \E s \in Slots : Continue(s)
    \/ \E s \in Slots : Finish(s)

\* Continue(s) is disabled while the response of another request is being
\* released and enabled again right after: strong fairness.
SpecLive ==
    /\ InitHandler
    /\ [][NextLive]_vars
    /\ \A s \in Slots : SF_vars(Continue(s)) /\ WF_vars(Finish(s))

\* the awaits a request has still before it, at most
Remaining(r) ==
    CASE r.pc = "json" -> 6 + 2 * MaxRepos
      [] r.pc = "profile" -> 5 + 2 * MaxRepos
      [] r.pc = "repos" -> 4 + 2 * MaxRepos
      [] r.pc = "lang" -> 3 + MaxRepos + (r.nRepos - r.i)
      [] r.pc = "content" -> 3 + (r.nTop - r.i)
      [] r.pc = "llm" -> 2
      [] r.pc = "db" -> 1
      [] OTHER -> 0

\* C29: when every external call returns or fails in the end, every request
\* that has arrived is answered; it is answered once (a response is set by
\* the step that ends the request, and the slot is then released), each of
\* its steps brings it nearer to the response by the bounded count of the
\* awaits still before it, whatever the call answered, and whatever state
\* earlier requests left the cache and the limiter in.
C29_Terminates ==
    /\ \A s \in Slots : (InFlight(req[s]) ~> Done(req[s]))
    /\ \A s \in Slots : (Done(req[s]) ~> req[s].pc = "idle")
    /\ [][\A s \in Slots :
             /\ (InFlight(req[s]) /\ req'[s] # req[s]) =>
                   /\ Remaining(req'[s]) < Remaining(req[s])
                   /\ InFlight(req'[s]) \/ Done(req'[s])
                   /\ req[s].resp = Null
             /\ Done(req[s]) => (req'[s] = req[s] \/ req'[s] = IdleReq)
             /\ Done(req'[s]) => req'[s].resp.status \in {200, 400, 404, 429, 500, 503}]_vars

\* a request has been answered 200 after its loop over the listed
\* repositories, although the write to the database failed
C29_Witness ==
    \E s \in Slots :
        /\ Done(req[s])
        /\ req[s].resp.status = 200
        /\ \E e \in EntriesOf(req[s], "languages") : e.n > 0
        /\ \E e \in EntriesOf(req[s], "persist") : ~e.ok

====
